---- MODULE Spec2Model ----
(***************************************************************************)
(* A model of the rocBLAS reference kernels and launchers kept under       *)
(* src/reference: dot, gemv, ger, hbmv, hpmv, sbmv, syr2, tbmv and the     *)
(* gemm entry point.                                                       *)
(*                                                                         *)
(* Arithmetic is kept symbolic.  A value is a bag (multiset) of terms; a   *)
(* sum is the bag union of its summands, the number zero is the empty bag, *)
(* and a product of two loaded elements is one term that names the two     *)
(* addresses it was loaded from.  Two values are equal exactly when they   *)
(* are sums of the same products, each taken the same number of times, so  *)
(* a missed or a repeated index is never masked by the data.  Eval gives   *)
(* the number a value stands for under concrete data.                      *)
(*                                                                         *)
(* Sizes are scaled: the tile and threshold constants of the source are    *)
(* replaced by small numbers that keep their order and divisibility        *)
(* relations, so that every branch of the launchers is taken for vectors   *)
(* of a dozen elements.  Each scaled constant names the source constant it *)
(* stands for.                                                             *)
(***************************************************************************)
EXTENDS Integers, Sequences, FiniteSets, Bags, TLC

VARIABLES
    args,      \* the arguments of the call, the handle's state and the build
    mem,       \* the arrays the call may write (device and host)
    loads,     \* every element of an input operand loaded so far
    stream,    \* the handle's stream: operations enqueued and not yet run
    done,      \* the operations the stream has run, in order
    status,    \* the launcher's return value, "none" until it returns
    pc,        \* where the host is: "call", "sync" (waiting), "ret"
    lanes,     \* lane-level runs: each lane's position in its kernel
    shared     \* lane-level runs: the block's shared scratch

vars == <<args, mem, loads, stream, done, status, pc, lanes, shared>>

----------------------------------------------------------------------------
(* Values *)

Zero == EmptyBag

Min(a, b) == IF a < b THEN a ELSE b

Max(a, b) == IF a > b THEN a ELSE b

\* the sum of the values f[d], d in DOMAIN f
RECURSIVE BSum(_)
BSum(f) ==
    IF DOMAIN f = {} THEN Zero
    ELSE LET d == CHOOSE e \in DOMAIN f : TRUE
         IN  f[d] (+) BSum([e \in DOMAIN f \ {d} |-> f[e]])

\* the sum of the values of a sequence
SeqSum(s) == BSum(s)

\* one value holding the single term t
Term(t) == SetToBag({t})

\* an element of an operand: the operand, the batch and the address in the
\* batch's array
Elem(o, b, ad) == <<o, b, ad>>

\* the product of the elements e1 and e2, e2 conjugated when cj
ProdE(e1, e2, cj) == Term(<<"mul", e1, e2, cj>>)

\* the product a*b of the element of operand ao at address aa and the element
\* of operand bo at address ab of batch b, the second conjugated when cj
Prod(b, ao, aa, bo, ab, cj) == ProdE(Elem(ao, b, aa), Elem(bo, b, ab), cj)

\* k times the value v, k a natural number: every term k times as often
Scale(k, v) == IF k = 0 THEN Zero ELSE [t \in DOMAIN v |-> k * v[t]]

\* the value an array cell holds before the call writes it
Old(arr, i) == Term(<<"old", arr, i>>)

\* what a shared-scratch entry holds: nothing yet, the constant 0, or an
\* element loaded from an operand
Undef == <<"undef">>

ZeroE == <<"zero">>

\* the product of two staged values
ProdS(e1, e2, cj) == IF e1 = ZeroE \/ e2 = ZeroE THEN Zero ELSE ProdE(e1, e2, cj)

----------------------------------------------------------------------------
(* Bounds of the model *)

\* largest vector length of a dot call
MaxN == 18

\* largest batch_count of a call
MaxBatch == 5

\* c_YZ_grid_launch_limit, the batch dimension of the grid on a device whose
\* y and z grid dimensions are 16 bits wide (65535 in the build)
c_YZ_grid_launch_limit == 2


\* rocblas_dot_kernel's NB, a template argument of the launcher (512 in the
\* build)
DotNB == 2

\* NB_OB, the lanes of the single block (1024 in the source)
NB_OB == 4

\* WIN_OB, the elements per lane of the single block (32 in the source)
WIN_OB == 4

\* DOT_NB, the lanes of a block of the gfx942 kernel (1024 in the source)
DOT_NB == 2

\* WARP_32 and WARP_64, the two wavefront sizes (32 and 64 in the build)
WARP_32 == 2

WARP_64 == 4

\* the small-n and high-batch limits of the first launcher branch (1024 and
\* 256 in the source)
dot_small_n == 4

dot_high_batch == 3

\* sddot_gfx942_lower_threshold of rocblas_level1_threshold.hpp
sddot_gfx942_lower_threshold == 16

----------------------------------------------------------------------------
(* dot: constants and kernels *)

\* batches handled by one block of rocblas_dot_batched_4_kernel
NB_Y == 4

\* elements per lane of the gfx942 kernel
DOT_NELEM == 4

Types == {"half", "float", "double", "float_complex", "double_complex"}

IsComplex(T) == T \in {"float_complex", "double_complex"}

sizeof(T) ==
    CASE T = "half" -> 2
      [] T = "float" -> 4
      [] T = "double" -> 8
      [] T = "float_complex" -> 8
      [] T = "double_complex" -> 16

rocblas_dot_WIN(T) ==
    IF sizeof(T) >= 8 THEN 2 ELSE IF sizeof(T) >= 4 THEN 4 ELSE 8

\* scaled: 32768, 31000, 16000, 13000, 10000 in the source
rocblas_dot_one_block_threshold(T) ==
    IF T = "float" THEN 15
    ELSE IF T = "float_complex" THEN 9
    ELSE IF T = "double" THEN 7
    ELSE IF T = "double_complex" THEN 5
    ELSE 16

\* rocblas_reduction_kernel_block_count: the blocks needed for n elements at
\* nb elements per block
rocblas_reduction_kernel_block_count(n, nb) ==
    IF n <= 0 THEN 1 ELSE (n - 1) \div nb + 1

\* handle->getBatchGridDim: the z dimension of the grid for batch_count
\* batches
getBatchGridDim(grid16, batch_count) ==
    IF grid16 THEN Min(batch_count, c_YZ_grid_launch_limit) ELSE batch_count

\* the batches one block handles: blockIdx.z alone, or, where the batch loop
\* is compiled in, blockIdx.z, blockIdx.z + limit, ... below batch_count
RECURSIVE BatchLoop(_, _, _)
BatchLoop(grid16, batch, batch_count) ==
    IF ~grid16 THEN <<batch>>
    ELSE IF batch < batch_count
         THEN <<batch>> \o BatchLoop(grid16, batch + c_YZ_grid_launch_limit, batch_count)
         ELSE <<>>

\* for(j = 0; j < WIN && i < lim; j++, i += inc): the values of i the body sees
RECURSIVE dot_win_loop(_, _, _, _, _)
dot_win_loop(j, i, inc, WIN, lim) ==
    IF j < WIN /\ i < lim
    THEN <<i>> \o dot_win_loop(j + 1, i + inc, inc, WIN, lim)
    ELSE <<>>

\* the initial value of a lane's element index
dot_i0(K, bx, tx) == IF ~K.ONE_BLOCK THEN bx * K.NB + tx ELSE tx

\* the lane stride of the strided loop
dot_inc(K) ==
    IF K.name \in {"rocblas_dot_kernel_inc1", "rocblas_dot_kernel_inc1by2"}
    THEN (IF ~K.ONE_BLOCK THEN K.NB * K.gridx ELSE K.NB)
    ELSE K.NB * K.gridx

\* rocblas_dot_kernel_inc1by2 sums pairs for half, bfloat16 and float
dot_by2(K) ==
    K.name = "rocblas_dot_kernel_inc1by2" /\ K.T \in {"half", "float"}

\* one pass of a lane over the body of the batch loop, entered with element
\* index i: idx, the element indices it accumulates, and i, the index it
\* leaves behind
dot_lane_pass(K, i) ==
    IF dot_by2(K)
    THEN LET i2   == i * 2
             inc2 == dot_inc(K) * 2
             prs  == dot_win_loop(0, i2, inc2, K.WIN, K.n - 1)
             ie   == i2 + Len(prs) * inc2
             two  == [q \in 1..(2 * Len(prs)) |-> prs[(q + 1) \div 2] + ((q + 1) % 2)]
         IN  [idx |-> IF K.n % 2 = 1 /\ ie = K.n - 1 THEN two \o <<ie>> ELSE two,
              i   |-> ie]
    ELSE LET vis == dot_win_loop(0, i, dot_inc(K), K.WIN, K.n)
         IN  [idx |-> vis, i |-> i + Len(vis) * dot_inc(K)]

\* the element index with which lane tx of block bx enters the k-th pass of
\* the batch loop (k = 1 is the first): i is declared outside the loop
RECURSIVE dot_lane_i(_, _, _, _)
dot_lane_i(K, bx, tx, k) ==
    IF k = 1 THEN dot_i0(K, bx, tx)
    ELSE dot_lane_pass(K, dot_lane_i(K, bx, tx, k - 1)).i

\* a squared-magnitude kernel that never conjugates
dot_term_plain_square(K, b, i) ==
    IF K.name = "rocblas_dot_kernel_magsq"
    THEN Prod(b, "x", K.shiftx + i * K.incx, "x", K.shiftx + i * K.incx, FALSE)
    ELSE IF K.name \in {"rocblas_dot_kernel_inc1", "rocblas_dot_kernel_inc1by2"}
    THEN Prod(b, K.yop, K.shifty + i, "x", K.shiftx + i, K.CONJ)
    ELSE Prod(b, K.yop, K.shifty + i * K.incy, "x", K.shiftx + i * K.incx, K.CONJ)

\* the product a lane adds for element index i of batch b
dot_term(K, b, i) ==
    IF K.name = "rocblas_dot_kernel_magsq"
    THEN Prod(b, "x", K.shiftx + i * K.incx, "x", K.shiftx + i * K.incx, K.CONJ)
    ELSE IF K.name \in {"rocblas_dot_kernel_inc1", "rocblas_dot_kernel_inc1by2"}
    THEN Prod(b, K.yop, K.shifty + i, "x", K.shiftx + i, K.CONJ)
    ELSE Prod(b, K.yop, K.shifty + i * K.incy, "x", K.shiftx + i * K.incx, K.CONJ)

\* the sum lane tx of block bx holds after its k-th pass, for batch b
dot_lane_sum(K, bx, tx, k, b) ==
    LET idx == dot_lane_pass(K, dot_lane_i(K, bx, tx, k)).idx
    IN  SeqSum([q \in 1..Len(idx) |-> dot_term(K, b, idx[q])])

\* rocblas_dot_block_reduce: the sum of the lanes' values, held by lane 0
rocblas_dot_block_reduce(K, bx, k, b) ==
    BSum([tx \in 0..(K.NB - 1) |-> dot_lane_sum(K, bx, tx, k, b)])

\* a save whose slots of consecutive batches overlap
dot_save_sum_packed(ONE_BLOCK, gridx, bx, batch, out) ==
    IF ONE_BLOCK \/ gridx = 1
    THEN <<out.arr, out.off + batch>>
    ELSE <<"workspace", bx + batch>>

\* a save that always goes to the block's workspace slot
dot_save_sum_partial(ONE_BLOCK, gridx, bx, batch, out) ==
    <<"workspace", bx + batch * gridx>>

\* rocblas_dot_save_sum: the cell lane 0 writes
rocblas_dot_save_sum(ONE_BLOCK, gridx, bx, batch, out) ==
    IF ONE_BLOCK \/ gridx = 1
    THEN <<out.arr, out.off + batch>>
    ELSE <<"workspace", bx + batch * gridx>>

\* the writes of one block of rocblas_dot_kernel, _inc1, _inc1by2 or _magsq
dot_block_writes(K, bx, bz) ==
    LET bs == BatchLoop(K.grid16, bz, K.batch_count)
    IN  { [loc |-> rocblas_dot_save_sum(K.ONE_BLOCK, K.gridx, bx, bs[k], K.out),
           val |-> rocblas_dot_block_reduce(K, bx, k, bs[k]),
           blk |-> <<bx, 0, bz>>] : k \in 1..Len(bs) }

\* the tail loop of the gfx942 kernel: for(; i < 4*G && i < n; i += G)
RECURSIVE gfx942_tail_loop(_, _, _)
gfx942_tail_loop(i, G, n) ==
    IF i < 4 * G /\ i < n THEN <<i>> \o gfx942_tail_loop(i + G, G, n) ELSE <<>>

\* the element indices lane tx of block bx of
\* rocblas_dot_kernel_gfx942_float_double accumulates
gfx942_lane_idx(K, bx, tx) ==
    LET i == bx * K.NB + tx
        G == K.NB * K.gridx
    IN  IF i + 3 * G < K.n
        THEN <<i, i + G, i + 2 * G, i + 3 * G>> \o gfx942_tail_loop(i + 4 * G, G, K.n)
        ELSE gfx942_tail_loop(i, G, K.n)

\* the writes of one block of rocblas_dot_kernel_gfx942_float_double
gfx942_block_writes(K, bx, bz) ==
    LET lane(tx) ==
            LET idx == gfx942_lane_idx(K, bx, tx)
            IN  SeqSum([q \in 1..Len(idx) |->
                    Prod(bz, K.yop, K.shifty + idx[q] * K.incy,
                         "x", K.shiftx + idx[q] * K.incx, FALSE)])
    IN  { [loc |-> rocblas_dot_save_sum(FALSE, K.gridx, bx, bz, K.out),
           val |-> BSum([tx \in 0..(K.NB - 1) |-> lane(tx)]),
           blk |-> <<bx, 0, bz>>] }

\* for(tid = threadIdx.x; tid < n; tid += WARP): the values of tid
RECURSIVE batched_4_loop(_, _, _)
batched_4_loop(tid, n, WARP) ==
    IF tid < n THEN <<tid>> \o batched_4_loop(tid + WARP, n, WARP) ELSE <<>>

\* the sum of lane (tx, ty) of rocblas_dot_batched_4_kernel for its batch
batched_4_lane_sum(K, batch, tx) ==
    LET idx == batched_4_loop(tx, K.n, K.NB)
    IN  SeqSum([q \in 1..Len(idx) |->
            Prod(batch, K.yop, K.shifty + idx[q] * K.incy,
                 "x", K.shiftx + idx[q] * K.incx, K.CONJ)])

\* the writes of one block of rocblas_dot_batched_4_kernel: row ty of the
\* block handles batch blockIdx.x * NB_Y + ty and returns when that is not a
\* batch; rocblas_wavefront_reduce sums the row
batched_4_block_writes(K, bx) ==
    { [loc |-> <<K.out.arr, K.out.off + (bx * NB_Y + ty)>>,
       val |-> BSum([tx \in 0..(K.NB - 1) |-> batched_4_lane_sum(K, bx * NB_Y + ty, tx)]),
       blk |-> <<bx, 0, 0>>] :
      ty \in {t \in 0..(NB_Y - 1) : bx * NB_Y + t < K.batch_count} }

\* the blocks of a launch
Blocks(K) == (0..(K.gridx - 1)) \X (0..(K.gridz - 1))

\* the writes of a whole dot kernel launch
dot_kernel_writes(K) ==
    UNION { IF K.name = "rocblas_dot_batched_4_kernel"
              THEN batched_4_block_writes(K, bb[1])
            ELSE IF K.name = "rocblas_dot_kernel_gfx942_float_double"
              THEN gfx942_block_writes(K, bb[1], bb[2])
            ELSE dot_block_writes(K, bb[1], bb[2]) : bb \in Blocks(K) }

\* rocblas_reduction_kernel_part2: block b sums the nblocks partials of batch
\* b and writes the result
rocblas_reduction_kernel_part2(K, m) ==
    { [loc |-> <<K.out.arr, K.out.off + b>>,
       val |-> BSum([g \in 0..(K.nblocks - 1) |-> m.workspace[b * K.nblocks + g]]),
       blk |-> <<b, 0, 0>>] : b \in 0..(K.gridx - 1) }

\* the elements of x and y a value was computed from
LoadsOf(v) ==
    UNION { IF t[1] = "mul" THEN {t[2], t[3]} ELSE {} : t \in DOMAIN v }

\* memory after the writes W of a launch
ApplyWrites(m, W) ==
    [arr \in DOMAIN m |->
        [i \in DOMAIN m[arr] |->
            IF \E w \in W : w.loc = <<arr, i>>
            THEN (CHOOSE w \in W : w.loc = <<arr, i>>).val
            ELSE m[arr][i]]]

----------------------------------------------------------------------------
(* dot: the launcher *)

\* a launcher that leaves the base offset where it is
dot_shift_none(inc, n) == 0

\* in case of negative inc shift pointer to end of data (offset 0)
dot_shift(inc, n) == IF inc < 0 THEN 0 - inc * (n - 1) ELSE 0

\* a launcher that remembers whether the handle has been used before, and
\* takes the operands of the first call for distinct
dot_distinct_first_call(a) == shared = <<>>

\* a launcher that takes every pair of operands for distinct
dot_distinct_always(a) == TRUE

\* x != y || incx != incy || offsetx != offsety || stridex != stridey
dot_distinct(a) == ~a.y_is_x \/ a.incx # a.incy

\* the arguments of a kernel launch
DotK(name, ONE_BLOCK, NB, WIN, gridx, gridz, nblocks, out, a) ==
    [op |-> "kernel", name |-> name, ONE_BLOCK |-> ONE_BLOCK, NB |-> NB, WIN |-> WIN,
     CONJ |-> a.CONJ, T |-> a.T, n |-> a.n, incx |-> a.incx, incy |-> a.incy,
     shiftx |-> dot_shift(a.incx, a.n), shifty |-> dot_shift(a.incy, a.n),
     yop |-> IF a.y_is_x THEN "x" ELSE "y",
     batch_count |-> a.batch_count, grid16 |-> a.grid16,
     gridx |-> gridx, gridz |-> gridz, nblocks |-> nblocks, out |-> out]

\* T* output = results, or workspace + offset in host pointer mode
dot_output(a, offset) ==
    IF a.pointer_mode = "host"
    THEN [arr |-> "workspace", off |-> offset]
    ELSE [arr |-> "results", off |-> 0]

\* the branch of the launcher a call with n > 0 and batch_count > 0 takes
dot_path(a) ==
    IF a.n <= dot_small_n /\ a.batch_count >= dot_high_batch THEN "batched_4"
    ELSE IF a.n <= rocblas_dot_one_block_threshold(a.T) THEN "one_block"
    ELSE IF /\ a.arch = 942
            /\ a.T \in {"float", "double"}
            /\ a.n > sddot_gfx942_lower_threshold
            /\ dot_distinct(a) THEN "gfx942"
    ELSE "generic"

\* the number of blocks per batch of the first kernel
dot_blocks(a) ==
    CASE dot_path(a) = "batched_4" -> 1
      [] dot_path(a) = "one_block" -> rocblas_reduction_kernel_block_count(a.n, NB_OB * WIN_OB)
      [] dot_path(a) = "gfx942" -> rocblas_reduction_kernel_block_count(a.n, DOT_NB * DOT_NELEM)
      [] OTHER -> rocblas_reduction_kernel_block_count(a.n, DotNB * rocblas_dot_WIN(a.T))

\* the kernel of the one-block and generic branches
dot_kernel_name(a, inc1) ==
    IF dot_distinct(a)
    THEN (IF a.incx = 1 /\ a.incy = 1 THEN inc1 ELSE "rocblas_dot_kernel")
    ELSE "rocblas_dot_kernel_magsq"

\* a launcher that enqueues the finalize kernel ahead of the phase-1 kernel
dot_launches_finalize_first(a) ==
    LET blocks == dot_blocks(a)
        out    == dot_output(a, a.batch_count * blocks)
    IN  << DotK("rocblas_reduction_kernel_part2", FALSE, DotNB, rocblas_dot_WIN(a.T),
                a.batch_count, 1, blocks, out, a),
           DotK("rocblas_dot_kernel", FALSE, DotNB, rocblas_dot_WIN(a.T), blocks,
                getBatchGridDim(a.grid16, a.batch_count), 0, out, a) >>

\* the kernels the launcher enqueues, in order
dot_launches(a) ==
    LET blocks == dot_blocks(a)
        out    == dot_output(a, a.batch_count * blocks)
    IN  CASE dot_path(a) = "batched_4" ->
               << DotK("rocblas_dot_batched_4_kernel", FALSE, a.warp, 0,
                       (a.batch_count - 1) \div NB_Y + 1, 1, 0, out, a) >>
          [] dot_path(a) = "one_block" ->
               << DotK(dot_kernel_name(a, "rocblas_dot_kernel_inc1by2"), TRUE, NB_OB, WIN_OB,
                       blocks, getBatchGridDim(a.grid16, a.batch_count), 0, out, a) >>
          [] dot_path(a) = "gfx942" ->
               << DotK("rocblas_dot_kernel_gfx942_float_double", FALSE, DOT_NB, DOT_NELEM,
                       blocks, a.batch_count, 0, out, a),
                  DotK("rocblas_reduction_kernel_part2", FALSE, DOT_NB, DOT_NELEM,
                       a.batch_count, 1, blocks, out, a) >>
          [] OTHER ->
               << DotK(dot_kernel_name(a, "rocblas_dot_kernel_inc1"), FALSE, DotNB,
                       rocblas_dot_WIN(a.T), blocks,
                       getBatchGridDim(a.grid16, a.batch_count), 0, out, a) >>
               \o (IF blocks > 1
                   THEN << DotK("rocblas_reduction_kernel_part2", FALSE, DotNB,
                                rocblas_dot_WIN(a.T), a.batch_count, 1, blocks, out, a) >>
                   ELSE <<>>)

\* hipMemcpyAsync(&results[0], output, sizeof(T) * batch_count, DeviceToHost)
dot_memcpy(a) ==
    [op |-> "memcpy", src |-> dot_output(a, a.batch_count * dot_blocks(a)),
     count |-> a.batch_count]

\* a zero-fill that stops one result short
dot_memset_short(a) == [op |-> "memset", count |-> a.batch_count - 1]

\* hipMemsetAsync(&results[0], 0, batch_count * sizeof(T))
dot_memset(a) == [op |-> "memset", count |-> a.batch_count]

\* rocblas_internal_dot_launcher, up to the point where it returns or waits for
\* the stream: the status it returns ("none" while it waits), the memory it
\* leaves, what it has put on the stream and where it is
rocblas_internal_dot_launcher(a, m) ==
    IF a.n <= 0 \/ a.batch_count = 0
    THEN IF a.size_query
         THEN [status |-> "size_unchanged", mem |-> m, ops |-> <<>>, pc |-> "ret"]
         ELSE IF a.pointer_mode = "device" /\ a.batch_count > 0
         THEN IF a.hip = "memset"
              THEN [status |-> "hip_error", mem |-> m, ops |-> <<>>, pc |-> "ret"]
              ELSE [status |-> "success", mem |-> m, ops |-> <<dot_memset(a)>>, pc |-> "ret"]
         ELSE [status |-> "success",
               mem |-> [m EXCEPT !.results =
                          [i \in DOMAIN m.results |->
                              IF i < a.batch_count THEN Zero ELSE m.results[i]]],
               ops |-> <<>>, pc |-> "ret"]
    ELSE IF a.pointer_mode = "host"
         THEN IF a.hip = "memcpy"
              THEN [status |-> "hip_error", mem |-> m, ops |-> dot_launches(a), pc |-> "ret"]
              ELSE [status |-> "none", mem |-> m,
                    ops |-> dot_launches(a) \o <<dot_memcpy(a)>>, pc |-> "sync"]
         ELSE [status |-> "success", mem |-> m, ops |-> dot_launches(a), pc |-> "ret"]

\* the host calls the launcher
DotCall ==
    /\ pc = "call"
    /\ args.routine = "dot"
    /\ LET r == rocblas_internal_dot_launcher(args, mem)
       IN  /\ status' = r.status
           /\ mem' = r.mem
           /\ stream' = stream \o r.ops
           /\ pc' = r.pc
    /\ UNCHANGED <<args, loads, done, lanes, shared>>

\* a wait that returns while the stream still holds operations
DotSynchronizedEarly ==
    /\ pc = "sync"
    /\ args.routine = "dot"
    /\ status' = IF args.hip = "sync" THEN "hip_error" ELSE "success"
    /\ pc' = "ret"
    /\ UNCHANGED <<args, mem, loads, stream, done, lanes, shared>>

\* hipStreamSynchronize returns once the stream is empty
DotSynchronized ==
    /\ pc = "sync"
    /\ args.routine = "dot"
    /\ stream = <<>>
    /\ status' = IF args.hip = "sync" THEN "hip_error" ELSE "success"
    /\ pc' = "ret"
    /\ UNCHANGED <<args, mem, loads, stream, done, lanes, shared>>

\* the writes of the operation at the head of the stream
dot_op_writes(K, m) ==
    IF K.op = "memcpy"
    THEN { [loc |-> <<"results", b>>, val |-> m[K.src.arr][K.src.off + b], blk |-> <<0, 0, 0>>] :
           b \in 0..(K.count - 1) }
    ELSE IF K.op = "memset"
    THEN { [loc |-> <<"results", b>>, val |-> Zero, blk |-> <<0, 0, 0>>] : b \in 0..(K.count - 1) }
    ELSE IF K.name = "rocblas_reduction_kernel_part2"
    THEN rocblas_reduction_kernel_part2(K, m)
    ELSE dot_kernel_writes(K)

\* the stream runs the operation at its head
DotStream ==
    /\ stream # <<>>
    /\ args.routine = "dot"
    /\ LET K == Head(stream)
           W == dot_op_writes(K, mem)
       IN  /\ mem' = ApplyWrites(mem, W)
           /\ loads' = loads \cup
                 (IF K.op = "kernel" /\ K.name # "rocblas_reduction_kernel_part2"
                  THEN UNION { LoadsOf(w.val) : w \in W } ELSE {})
           /\ done' = Append(done, K)
    /\ stream' = Tail(stream)
    /\ UNCHANGED <<args, status, pc, lanes, shared>>

\* the increments <<incx, incy>> of a call
Incs == {<<1, 1>>, <<1, 2>>, <<-1, 1>>, <<2, -2>>, <<-2, -2>>}

\* the cells of the workspace: room for the partials of every batch and for
\* the staged results
WorkspaceLen == MaxBatch * (rocblas_reduction_kernel_block_count(MaxN, DotNB * 2) + 1)

\* memory before a dot call
DotMem0 ==
    [results   |-> [i \in 0..(MaxBatch - 1) |-> Old("results", i)],
     workspace |-> [i \in 0..(WorkspaceLen - 1) |-> Old("workspace", i)]]

\* a dot call: any n and batch_count, the operands' increments and aliasing,
\* the element type, the pointer mode, the device and the outcome of the HIP
\* calls.  An argument the launcher never looks at on the branch the call
\* takes is kept at one value.
DotInit ==
    /\ \E n \in (-1)..MaxN, bc \in 0..MaxBatch, pm \in {"host", "device"} :
         LET quick == n <= 0 \/ bc = 0
         IN  \E T \in (IF quick THEN {"float"} ELSE Types),
                inc \in (IF quick THEN {<<1, 1>>} ELSE Incs),
                yx \in (IF quick THEN {FALSE} ELSE BOOLEAN),
                sq \in (IF quick THEN BOOLEAN ELSE {FALSE}) :
               \E cj \in (IF IsComplex(T) THEN BOOLEAN ELSE {FALSE}),
                  hip \in (IF quick
                           THEN (IF pm = "device" /\ bc > 0 /\ ~sq THEN {"ok", "memset"} ELSE {"ok"})
                           ELSE (IF pm = "host" THEN {"ok", "memcpy", "sync"} ELSE {"ok"})),
                  arch \in (IF ~quick /\ T \in {"float", "double"}
                               /\ n > rocblas_dot_one_block_threshold(T)
                            THEN {942, 908} ELSE {908}),
                  warp \in (IF ~quick /\ n <= dot_small_n /\ bc >= dot_high_batch
                            THEN {WARP_32, WARP_64} ELSE {WARP_64}) :
                 \E g16 \in (IF ~quick /\ arch # 942 /\ bc > c_YZ_grid_launch_limit
                             THEN BOOLEAN ELSE {FALSE}) :
                   args = [routine |-> "dot", n |-> n, batch_count |-> bc,
                           pointer_mode |-> pm, T |-> T, incx |-> inc[1], incy |-> inc[2],
                           y_is_x |-> yx, size_query |-> sq, CONJ |-> cj, hip |-> hip,
                           arch |-> arch, warp |-> warp, grid16 |-> g16]
    /\ mem = DotMem0
    /\ loads = {}
    /\ stream = <<>>
    /\ done = <<>>
    /\ status = "none"
    /\ pc = "call"
    /\ lanes = <<>>
    /\ shared = <<>>

DotNext == DotCall \/ DotStream \/ DotSynchronized

SpecDot == DotInit /\ [][DotNext]_vars

----------------------------------------------------------------------------
(* dot: properties *)

\* the address of element i of a vector of n elements with increment inc
\* (BLAS convention: a negative increment walks the vector backwards)
BlasAddr(i, inc, n) == IF inc < 0 THEN (n - 1 - i) * (0 - inc) ELSE i * inc

\* the dot product of batch b: every index once
DotRef(a, b) ==
    BSum([i \in 0..(a.n - 1) |->
            Prod(b, IF a.y_is_x THEN "x" ELSE "y", BlasAddr(i, a.incy, a.n),
                 "x", BlasAddr(i, a.incx, a.n), a.CONJ)])

\* the sum of the integers f[d], d in DOMAIN f
RECURSIVE ISum(_)
ISum(f) ==
    IF DOMAIN f = {} THEN 0
    ELSE LET d == CHOOSE e \in DOMAIN f : TRUE
         IN  f[d] + ISum([e \in DOMAIN f \ {d} |-> f[e]])

\* the number a dot result stands for when x = [1,2,3,4,5], y = [5,4,3,2,1]
DotExample(v) ==
    LET el(e) == IF e[1] = "x" THEN e[3] + 1 ELSE 5 - e[3]
    IN  ISum([t \in DOMAIN v |->
              IF t[1] = "mul" THEN v[t] * el(t[2]) * el(t[3]) ELSE 1000])

\* the call has returned success and the stream has run everything
DotFinished ==
    /\ args.routine = "dot"
    /\ pc = "ret"
    /\ stream = <<>>
    /\ status = "success"

\* C1: for n > 0 every result[b], b < batch_count, is the sum over i < n of
\* x_b[i]*y_b[i], every index once, on every path of the launcher; n = 5,
\* x = [1..5], y = [5..1] gives 35
C1_DotResult ==
    (DotFinished /\ args.n > 0)
    => /\ \A b \in 0..(args.batch_count - 1) : mem.results[b] = DotRef(args, b)
       /\ (args.n = 5 /\ args.batch_count = 1 /\ args.incx = 1 /\ args.incy = 1 /\ ~args.y_is_x)
          => DotExample(mem.results[0]) = 35

\* the call is one the launcher returns from at once
DotQuick == args.routine = "dot" /\ pc = "ret" /\ (args.n <= 0 \/ args.batch_count = 0)

\* every result of the call is zero
DotResultsZero == \A b \in 0..(args.batch_count - 1) : mem.results[b] = Zero

\* C7 as stated: a dot call with batch_count == 0 or n <= 0 returns success
\* with all batch_count results zero and reads neither x nor y
C7_QuickReturnSuccess ==
    DotQuick => /\ status = "success"
                /\ loads = {}
                /\ stream = <<>> => DotResultsZero

\* C7, amended: a dot call with batch_count == 0 or n <= 0 reads neither x nor
\* y and runs no kernel.  In size-query mode it returns size_unchanged and
\* leaves the results as they were; when the zero-fill of device pointer mode
\* cannot be enqueued it returns that error and leaves the results as they
\* were; otherwise it returns success and all batch_count results are zero
\* (once the stream has run the zero-fill, in device pointer mode).
C7_QuickReturn ==
    DotQuick =>
        /\ loads = {}
        /\ \A q \in 1..Len(done) : done[q].op # "kernel"
        /\ \A q \in 1..Len(stream) : stream[q].op # "kernel"
        /\ IF args.size_query
           THEN status = "size_unchanged" /\ mem = DotMem0 /\ stream = <<>> /\ done = <<>>
           ELSE IF args.hip = "memset"
           THEN status = "hip_error" /\ mem = DotMem0 /\ stream = <<>> /\ done = <<>>
           ELSE status = "success" /\ (stream = <<>> => DotResultsZero)

\* a quick return in device pointer mode whose zero-fill has run
C7_Witness ==
    /\ DotQuick
    /\ args.batch_count > 1
    /\ args.pointer_mode = "device"
    /\ status = "success"
    /\ Len(done) = 1
    /\ DotResultsZero

\* the call is past the quick return: n > 0 and batch_count > 0
DotLaunched ==
    args.routine = "dot" /\ pc # "call" /\ args.n > 0 /\ args.batch_count > 0

\* what the call has put on its stream so far, in the order it was enqueued
DotOps == done \o stream

\* the operation is the finalize kernel
IsPart2(K) == K.op = "kernel" /\ K.name = "rocblas_reduction_kernel_part2"

\* the operation is a phase-1 kernel
IsPhase1(K) == K.op = "kernel" /\ K.name # "rocblas_reduction_kernel_part2"

\* the cells the results of the kernels go to: results, or the staging region
\* of the workspace in host pointer mode
DotOutCells(a) ==
    LET out == dot_output(a, a.batch_count * dot_blocks(a))
    IN  { <<out.arr, out.off + b>> : b \in 0..(a.batch_count - 1) }

\* C11: the finalize kernel is launched only if phase 1 used more than one
\* group per batch element; with one group per batch element phase 1 writes
\* every result to the output location and no partial to the workspace
C11_FinalizeOnlyIfGroups ==
    DotLaunched =>
        /\ \A q \in 1..Len(DotOps) :
              IsPart2(DotOps[q]) => dot_blocks(args) > 1 /\ DotOps[q].nblocks > 1
        /\ (dot_blocks(args) = 1 /\ Len(done) >= 1)
              => /\ IsPhase1(done[1])
                 /\ \A q \in 1..Len(DotOps) : ~IsPart2(DotOps[q])
                 /\ \A c \in DotOutCells(args) : mem[c[1]][c[2]] # Old(c[1], c[2])
                 /\ \A i \in DOMAIN mem.workspace :
                       <<"workspace", i>> \notin DotOutCells(args)
                           => mem.workspace[i] = Old("workspace", i)

\* a call with one group per batch element whose only kernel has run, in host
\* pointer mode: the results are staged, the copy-back is still to come
C11_Witness ==
    /\ DotLaunched
    /\ dot_blocks(args) = 1
    /\ dot_path(args) = "one_block"
    /\ args.pointer_mode = "host"
    /\ args.batch_count > 1
    /\ Len(done) = 1
    /\ Len(stream) = 1

\* the workspace slots the finalize kernel K reads
Part2Slots(K) ==
    { b * K.nblocks + g : b \in 0..(K.gridx - 1), g \in 0..(K.nblocks - 1) }

\* C12: a finalize kernel is enqueued after the phase-1 kernel on the stream
\* of the handle, so when it runs phase 1 has written every partial it reads;
\* a host copy-back is enqueued after the last kernel on that stream
C12_FinalizeAfterPhase1 ==
    DotLaunched =>
        /\ \A q \in 1..Len(DotOps) :
              IsPart2(DotOps[q]) => q = 2 /\ IsPhase1(DotOps[1])
        /\ (stream # <<>> /\ IsPart2(Head(stream)))
              => /\ Len(done) = 1
                 /\ \A i \in Part2Slots(Head(stream)) :
                       mem.workspace[i] # Old("workspace", i)
        /\ \A q \in 1..Len(DotOps) :
              DotOps[q].op = "memcpy"
                  => /\ q = Len(DotOps)
                     /\ q > 1
                     /\ \A r \in 1..(q - 1) : DotOps[r].op = "kernel"

\* phase 1 has run, the finalize kernel is next on the stream and the host
\* copy-back follows it
C12_Witness ==
    /\ DotLaunched
    /\ Len(done) = 1
    /\ Len(stream) = 2
    /\ IsPart2(Head(stream))
    /\ stream[2].op = "memcpy"
    /\ args.batch_count > 1

\* C13: phase 1 writes the partial of group g and batch b to workspace slot
\* g + b * groups: distinct pairs get distinct slots, every slot is below
\* groups * batch_count, and the staging region of host pointer mode, which
\* starts at slot batch_count * groups, holds no partial
C13_PartialSlots ==
    (DotLaunched /\ done # <<>> /\ dot_blocks(args) > 1) =>
        LET K      == done[1]
            groups == dot_blocks(args)
            W      == dot_kernel_writes(K)
            slot   == { w.loc : w \in W }
        IN  /\ IsPhase1(K)
            /\ K.gridx = groups
            /\ slot = { <<"workspace", g + b * groups>> :
                          g \in 0..(groups - 1), b \in 0..(args.batch_count - 1) }
            /\ \A w \in W : \E b \in 0..(args.batch_count - 1) :
                  w.loc = <<"workspace", w.blk[1] + b * groups>>
            /\ Cardinality(W) = groups * args.batch_count
            /\ Cardinality(slot) = groups * args.batch_count
            /\ \A c \in slot : c[2] >= 0 /\ c[2] < groups * args.batch_count
            /\ args.pointer_mode = "host"
                  => /\ K.out = [arr |-> "workspace", off |-> args.batch_count * groups]
                     /\ slot \cap DotOutCells(args) = {}

\* phase 1 of a call in host pointer mode has written the partials of several
\* groups for several batches
C13_Witness ==
    /\ DotLaunched
    /\ Len(done) = 1
    /\ dot_blocks(args) > 1
    /\ args.batch_count > c_YZ_grid_launch_limit
    /\ args.grid16
    /\ args.pointer_mode = "host"

\* the call's x and y descriptors are identical and it is past the quick
\* return
SelfDot == DotLaunched /\ ~dot_distinct(args) /\ DotOps # <<>>

\* the squared-magnitude kernel K writes what rocblas_dot_kernel, launched
\* the same way with y the array x, writes
MagsqAsTwoOperand(K) ==
    dot_kernel_writes(K) = dot_kernel_writes([K EXCEPT !.name = "rocblas_dot_kernel"])

\* C15 as stated: with identical x and y descriptors the launcher selects the
\* squared-magnitude kernel, whose results are those of the two-operand
\* kernel for dot(x, x)
C15_SelfDotMagsq ==
    SelfDot => /\ DotOps[1].name = "rocblas_dot_kernel_magsq"
               /\ MagsqAsTwoOperand(DotOps[1])

\* C15, amended: with identical x and y descriptors the launcher selects the
\* squared-magnitude kernel, except on the small-n/high-batch branch, where
\* rocblas_dot_batched_4_kernel reads x through both descriptors; what the
\* squared-magnitude kernel writes for each batch is what the two-operand
\* kernel writes for dot(x, x)
C15_SelfDot ==
    SelfDot =>
        LET K == DotOps[1]
        IN  /\ K.yop = "x"
            /\ K.shiftx = K.shifty /\ K.incx = K.incy
            /\ IF dot_path(args) = "batched_4"
               THEN K.name = "rocblas_dot_batched_4_kernel"
               ELSE /\ K.name = "rocblas_dot_kernel_magsq"
                    /\ MagsqAsTwoOperand(K)

\* a conjugated self-dot of several batches whose squared-magnitude kernel
\* has run
C15_Witness ==
    /\ SelfDot
    /\ args.CONJ
    /\ args.batch_count > 1
    /\ Len(done) >= 1
    /\ done[1].name = "rocblas_dot_kernel_magsq"

\* the element indices the lanes of block bx of the launch K accumulate in
\* the k-th pass of the batch loop
DotCovered(K, bx, k) ==
    UNION { LET idx == dot_lane_pass(K, dot_lane_i(K, bx, tx, k)).idx
            IN  { idx[q] : q \in 1..Len(idx) } : tx \in 0..(K.NB - 1) }

\* C16: for 0 < n <= the type's single-block threshold, off the
\* small-n/high-batch branch, the launcher uses one group per batch element:
\* the block count is 1, the lanes of the single block cover all n elements
\* of every batch element, and no finalize kernel is launched
C16_OneBlock ==
    (DotLaunched /\ dot_path(args) = "one_block" /\ DotOps # <<>>) =>
        LET K == DotOps[1]
        IN  /\ dot_blocks(args) = 1
            /\ IsPhase1(K) /\ K.ONE_BLOCK /\ K.gridx = 1
            /\ \A q \in 1..Len(DotOps) : ~IsPart2(DotOps[q])
            /\ \A bz \in 0..(K.gridz - 1) :
                  \A k \in 1..Len(BatchLoop(K.grid16, bz, K.batch_count)) :
                      DotCovered(K, 0, k) = 0..(K.n - 1)

\* the first kernel of the call is the unrolled-by-4 kernel of gfx942
IsGfx942Dot == DotOps # <<>> /\ DotOps[1].name = "rocblas_dot_kernel_gfx942_float_double"

IsCopyBack(K) == K.op = "memcpy" /\ K.count = args.batch_count

\* C24: in host pointer mode every launch path enqueues, after its kernels,
\* the copy of the batch_count results to the host and returns only when the
\* stream has run everything; a failed copy or wait gives an error status,
\* never success; in device pointer mode the launcher returns without waiting
C24_HostCopyBack ==
    DotLaunched =>
        IF args.pointer_mode = "host"
        THEN /\ pc = "sync"
                  => /\ DotOps # <<>>
                     /\ IsCopyBack(DotOps[Len(DotOps)])
                     /\ \A q \in 1..(Len(DotOps) - 1) : DotOps[q].op = "kernel"
                     /\ Len(DotOps) >= 2
             /\ (pc = "ret" /\ status = "success")
                  => /\ stream = <<>>
                     /\ done # <<>>
                     /\ IsCopyBack(done[Len(done)])
                     /\ \A q \in 1..(Len(done) - 1) : done[q].op = "kernel"
                     /\ Len(done) >= 2
             /\ (pc = "ret" /\ args.hip \in {"memcpy", "sync"}) => status = "hip_error"
             /\ (pc = "ret" /\ args.hip = "ok") => status = "success"
        ELSE /\ pc = "ret"
             /\ status = "success"
             /\ \A q \in 1..Len(DotOps) : DotOps[q].op = "kernel"

\* a call in host pointer mode on the two-phase path whose wait for the stream
\* has failed
C24_Witness ==
    /\ DotLaunched
    /\ args.pointer_mode = "host"
    /\ dot_path(args) = "generic"
    /\ args.hip = "sync"
    /\ pc = "ret"
    /\ status = "hip_error"
    /\ stream = <<>>

\* in device pointer mode the launcher has returned and its kernels are still
\* on the stream
C24_DeviceReturns ==
    /\ DotLaunched
    /\ args.pointer_mode = "device"
    /\ pc = "ret"
    /\ stream # <<>>

\* the first kernel of the call iterates the batch loop: the grid has fewer
\* batch slots than the call has batches
DotLoops ==
    /\ DotLaunched
    /\ DotOps # <<>>
    /\ IsPhase1(DotOps[1])
    /\ DotOps[1].name \in {"rocblas_dot_kernel", "rocblas_dot_kernel_inc1",
                           "rocblas_dot_kernel_inc1by2", "rocblas_dot_kernel_magsq"}
    /\ DotOps[1].grid16
    /\ DotOps[1].gridz < DotOps[1].batch_count

\* every batch of the launch K is handled by one block row, in one pass
DotBatchesOnce(K) ==
    \A b \in 0..(K.batch_count - 1) :
        Cardinality({ c \in { <<bz, k>> : bz \in 0..(K.gridz - 1), k \in 1..K.batch_count } :
                        /\ c[2] <= Len(BatchLoop(K.grid16, c[1], K.batch_count))
                        /\ BatchLoop(K.grid16, c[1], K.batch_count)[c[2]] = b }) = 1

\* C26: when a block iterates over batches b, b + L, ..., every batch is
\* processed exactly once, every lane enters every pass of the loop with its
\* initial element index, and the result of every batch, the later batches of
\* a block included, is the full sum
C26_BatchLoop ==
    DotLoops =>
        LET K == DotOps[1]
        IN  /\ DotBatchesOnce(K)
            /\ \A bx \in 0..(K.gridx - 1), tx \in 0..(K.NB - 1), bz \in 0..(K.gridz - 1) :
                  \A k \in 1..Len(BatchLoop(K.grid16, bz, K.batch_count)) :
                      dot_lane_i(K, bx, tx, k) = dot_i0(K, bx, tx)
            /\ DotFinished
                  => \A b \in 0..(args.batch_count - 1) : mem.results[b] = DotRef(args, b)

----------------------------------------------------------------------------
(* ger: bounds, constants and kernels *)

\* largest m and n of a ger call
MaxM == 6

\* DIM_X and DIM_Y of rocblas_ger_kernel (32 and 32 in the source)
ger_DIM_X == 2

ger_DIM_Y == 2

\* DIM_X of rocblas_sger_kernel (1024) and of rocblas_sger_gfx942_kernel (256)
sger_DIM_X == 2

sger_gfx942_DIM_X == 2

\* is_float && m > 1024
sger_m_threshold == 2

\* is_gfx90a && m > 2000
ger_db_m_threshold == 3

\* DIM_Y of rocblas_ger_double_buffered_kernel for double and complex float
\* (16 in the source); DIM_X and DIM_Y of the other cases follow from it
ger_db_DIM_Y == 1

\* WIN of rocblas_ger_kernel: columns per lane
ger_WIN == 2

\* DIM_X of the double-buffered kernel: is_float ? 128 : 64
ger_db_DIM_X(is_float) == IF is_float THEN 4 * ger_db_DIM_Y ELSE 2 * ger_db_DIM_Y

\* the batches a block handles and does not skip: alpha is loaded first and a
\* zero alpha ends the batch
LiveBatches(K, bz) ==
    LET bs == BatchLoop(K.grid16, bz, K.batch_count)
    IN  {bs[k] : k \in {q \in 1..Len(bs) : K.alpha[bs[q]] # 0}}

\* the lanes of a block of dimx by dimy threads
Lanes(dimx, dimy) == (0..(dimx - 1)) \X (0..(dimy - 1))

\* the update A[ad] += alpha * x * y of batch b by lane ln of block blk
GerAdd(K, b, ad, xi, yj, blk, ln) ==
    [loc  |-> <<"A", <<b, ad>>>>,
     val  |-> Scale(K.alpha[b], ProdE(Elem("x", b, K.shiftx + xi * K.incx),
                                      Elem("y", b, K.shifty + yj * K.incy), K.CONJ)),
     blk  |-> blk, lane |-> ln]

\* the elements of A the updates W read and write back
AElems(W) == { Elem("A", w.loc[2][1], w.loc[2][2]) : w \in W }

\* rocblas_ger_kernel, lane (lx, ly) of block bx for batch b: the updates of A
ger_lane_adds(K, b, bx, bz, lx, ly) ==
    LET num_blocksx == (K.m - 1) \div K.DIM_X + 1
        blkx == bx % num_blocksx
        blky == bx \div num_blocksx
        tx   == blkx * K.DIM_X + lx
        ty   == (blky * K.DIM_Y + ly) * K.WIN
    IN  IF tx < K.m
        THEN { GerAdd(K, b, tx + K.lda * (ty + i), tx, ty + i, <<bx, 0, bz>>, <<lx, ly>>) :
               i \in {j \in 0..(K.WIN - 1) : ty + j < K.n} }
        ELSE {}

\* rocblas_ger_kernel, lane (lx, ly): the elements it loads into xdata and ydata
ger_lane_loads(K, b, bx, lx, ly) ==
    LET num_blocksx == (K.m - 1) \div K.DIM_X + 1
        blkx == bx % num_blocksx
        blky == bx \div num_blocksx
        tx   == blkx * K.DIM_X + lx
        ty   == (blky * K.DIM_Y + ly) * K.WIN
    IN  (IF ly = 0 /\ tx < K.m THEN {Elem("x", b, K.shiftx + tx * K.incx)} ELSE {})
        \cup (IF lx < K.WIN /\ ty + lx < K.n
              THEN {Elem("y", b, K.shifty + (ty + lx) * K.incy)} ELSE {})

\* rocblas_ger_kernel, one block
rocblas_ger_kernel(K, bx, by, bz) ==
    LET adds == UNION { ger_lane_adds(K, b, bx, bz, ln[1], ln[2]) :
                        b \in LiveBatches(K, bz), ln \in Lanes(K.DIM_X, K.DIM_Y) }
    IN  [adds  |-> adds,
         loads |-> AElems(adds) \cup
                   UNION { ger_lane_loads(K, b, bx, ln[1], ln[2]) :
                           b \in LiveBatches(K, bz), ln \in Lanes(K.DIM_X, K.DIM_Y) }]

\* rocblas_sger_gfx942_kernel, one block: two consecutive rows per lane, the
\* column blockIdx.y, the batch blockIdx.z
rocblas_sger_gfx942_kernel(K, bx, by, bz) ==
    LET tx(lx) == (bx * K.DIM_X + lx) * 2
        lane_adds(lx) ==
            (IF (K.m % 2) # 0 /\ tx(lx) + 1 = K.m
             THEN {GerAdd(K, bz, tx(lx) + by * K.lda, tx(lx), by, <<bx, by, bz>>, <<lx, 0>>)}
             ELSE {})
            \cup
            (IF tx(lx) + 1 < K.m
             THEN {GerAdd(K, bz, tx(lx) + by * K.lda, tx(lx), by, <<bx, by, bz>>, <<lx, 0>>),
                   GerAdd(K, bz, (tx(lx) + 1) + by * K.lda, tx(lx) + 1, by, <<bx, by, bz>>, <<lx, 0>>)}
             ELSE {})
        lane_loads(lx) ==
            {Elem("y", bz, K.shifty + by * K.incy)}
            \cup (IF tx(lx) < K.m
                  THEN {Elem("x", bz, K.shiftx + tx(lx) * K.incx), Elem("A", bz, tx(lx) + by * K.lda)}
                  ELSE {})
            \cup (IF tx(lx) + 1 < K.m
                  THEN {Elem("x", bz, K.shiftx + (tx(lx) + 1) * K.incx),
                        Elem("A", bz, (tx(lx) + 1) + by * K.lda)}
                  ELSE {})
    IN  IF K.alpha[bz] = 0
        THEN [adds |-> {}, loads |-> {}]
        ELSE [adds  |-> UNION { lane_adds(lx) : lx \in 0..(K.DIM_X - 1) },
              loads |-> UNION { lane_loads(lx) : lx \in 0..(K.DIM_X - 1) }]

\* for(i = 0; tx + i < m; i += DIM_X): the values of i
RECURSIVE sger_loop(_, _, _, _)
sger_loop(i, tx, m, DIM_X) ==
    IF tx + i < m THEN {i} \cup sger_loop(i + DIM_X, tx, m, DIM_X) ELSE {}

\* rocblas_sger_kernel, one block: the column blockIdx.x
rocblas_sger_kernel(K, bx, by, bz) ==
    LET adds == { GerAdd(K, q[1], q[2] + q[3] + bx * K.lda, q[2] + q[3], bx, <<bx, 0, bz>>, <<q[2], 0>>) :
                  q \in UNION { {<<b, lx, i>> : i \in sger_loop(0, lx, K.m, K.DIM_X)} :
                                b \in LiveBatches(K, bz), lx \in 0..(K.DIM_X - 1) } }
    IN  [adds  |-> adds,
         loads |-> AElems(adds)
                   \cup { Elem("x", w.loc[2][1], K.shiftx + (w.loc[2][2] - bx * K.lda) * K.incx) : w \in adds }
                   \cup { Elem("y", b, K.shifty + bx * K.incy) : b \in LiveBatches(K, bz) }]

\* rocblas_ger_double_buffered_kernel, one block: a DIM_X by DIM_X tile of A,
\* each lane an upper and a lower row of elements_per_thread columns
rocblas_ger_double_buffered_kernel(K, bx, by, bz) ==
    LET ept == K.WIN
        lane_adds(b, lx, ly) ==
            LET td  == K.DIM_X * ly + lx
                tx_ == td % (K.DIM_X \div 2)
                ty_ == td \div (K.DIM_X \div 2)
                row == bx * K.DIM_X + tx_
                col(k) == by * K.DIM_X + ty_ * ept + k
            IN  { GerAdd(K, b, row + col(k) * K.lda, row, col(k), <<bx, by, bz>>, <<lx, ly>>) :
                  k \in 0..(ept - 1) }
                \cup
                { GerAdd(K, b, (K.DIM_X \div 2) + row + col(k) * K.lda, (K.DIM_X \div 2) + row,
                         col(k), <<bx, by, bz>>, <<lx, ly>>) : k \in 0..(ept - 1) }
        adds == UNION { lane_adds(b, ln[1], ln[2]) :
                        b \in LiveBatches(K, bz), ln \in Lanes(K.DIM_X, K.DIM_Y) }
    IN  [adds  |-> adds,
         loads |-> AElems(adds) \cup UNION { LoadsOf(w.val) : w \in adds }]

----------------------------------------------------------------------------
(* ger: the launcher *)

\* the arguments of a ger kernel launch
GerK(name, DIM_X, DIM_Y, WIN, gridx, gridy, gridz, a) ==
    [op |-> "kernel", name |-> name, DIM_X |-> DIM_X, DIM_Y |-> DIM_Y, WIN |-> WIN,
     m |-> a.m, n |-> a.n, alpha |-> a.alpha, CONJ |-> a.CONJ,
     incx |-> a.incx, incy |-> a.incy,
     shiftx |-> dot_shift(a.incx, a.m), shifty |-> dot_shift(a.incy, a.n),
     lda |-> a.lda, batch_count |-> a.batch_count, grid16 |-> a.grid16,
     gridx |-> gridx, gridy |-> gridy, gridz |-> gridz]

\* the branch of the launcher a call with m, n, batch_count nonzero takes
ger_path(a) ==
    IF /\ a.arch = 910
       /\ a.m > ger_db_m_threshold
       /\ a.m = a.n
       /\ \/ a.m % ger_db_DIM_X(FALSE) = 0 /\ a.T \in {"double", "float_complex"}
          \/ a.m % ger_db_DIM_X(TRUE) = 0 /\ a.T = "float"
    THEN "double_buffered"
    ELSE IF a.T = "float" /\ a.m > sger_m_threshold
    THEN (IF a.arch = 942 THEN "sger_gfx942" ELSE "sger")
    ELSE "ger"

\* the kernel the launcher enqueues
ger_launch(a) ==
    LET batches == getBatchGridDim(a.grid16, a.batch_count)
    IN  CASE ger_path(a) = "double_buffered" ->
               LET DIM_X == ger_db_DIM_X(a.T = "float")
                   DIM_Y == ger_db_DIM_Y
               IN  GerK("rocblas_ger_double_buffered_kernel", DIM_X, DIM_Y, DIM_X \div (2 * DIM_Y),
                        a.m \div DIM_X, a.n \div DIM_X, batches, a)
          [] ger_path(a) = "sger_gfx942" ->
               GerK("rocblas_sger_gfx942_kernel", sger_gfx942_DIM_X, 1, 0,
                    (a.m - 1) \div (sger_gfx942_DIM_X * 2) + 1, a.n, a.batch_count, a)
          [] ger_path(a) = "sger" ->
               GerK("rocblas_sger_kernel", sger_DIM_X, 1, 0, a.n, 1, batches, a)
          [] OTHER ->
               GerK("rocblas_ger_kernel", ger_DIM_X, ger_DIM_Y, ger_WIN,
                    ((a.m - 1) \div ger_DIM_X + 1) * ((a.n - 1) \div (ger_DIM_Y * ger_WIN) + 1),
                    1, batches, a)

\* rocblas_internal_ger_launcher: the status it returns and what it puts on
\* the stream
rocblas_internal_ger_launcher(a) ==
    IF a.m = 0 \/ a.n = 0 \/ a.batch_count = 0
    THEN [status |-> "success", ops |-> <<>>]
    ELSE [status |-> "success", ops |-> <<ger_launch(a)>>]

\* the blocks of a launch with a three-dimensional grid
Blocks3(K) == (0..(K.gridx - 1)) \X (0..(K.gridy - 1)) \X (0..(K.gridz - 1))

\* one block of a ger kernel
ger_block(K, bb) ==
    CASE K.name = "rocblas_ger_double_buffered_kernel" ->
             rocblas_ger_double_buffered_kernel(K, bb[1], bb[2], bb[3])
      [] K.name = "rocblas_sger_gfx942_kernel" -> rocblas_sger_gfx942_kernel(K, bb[1], bb[2], bb[3])
      [] K.name = "rocblas_sger_kernel" -> rocblas_sger_kernel(K, bb[1], bb[2], bb[3])
      [] OTHER -> rocblas_ger_kernel(K, bb[1], bb[2], bb[3])

\* memory after the updates W (cell += value) of a launch
ApplyAdds(m, W) ==
    [arr \in DOMAIN m |->
        [i \in DOMAIN m[arr] |->
            LET Wi == {w \in W : w.loc = <<arr, i>>}
            IN  IF Wi = {} THEN m[arr][i] ELSE m[arr][i] (+) BSum([w \in Wi |-> w.val])]]

\* the host calls the ger launcher
GerCall ==
    /\ pc = "call"
    /\ args.routine = "ger"
    /\ LET r == rocblas_internal_ger_launcher(args)
       IN  /\ status' = r.status
           /\ stream' = stream \o r.ops
    /\ pc' = "ret"
    /\ UNCHANGED <<args, mem, loads, done, lanes, shared>>

\* the stream runs the ger kernel at its head
GerStream ==
    /\ stream # <<>>
    /\ args.routine = "ger"
    /\ LET K == Head(stream)
           R == [bb \in Blocks3(K) |-> ger_block(K, bb)]
       IN  /\ mem' = ApplyAdds(mem, UNION { R[bb].adds : bb \in Blocks3(K) })
           /\ loads' = loads \cup UNION { R[bb].loads : bb \in Blocks3(K) }
           /\ done' = Append(done, K)
    /\ stream' = Tail(stream)
    /\ UNCHANGED <<args, status, pc, lanes, shared>>

\* the cells of A of one batch: lda rows (one of padding) by MaxM columns
GerCells == (0..c_YZ_grid_launch_limit) \X (0..((MaxM + 1) * MaxM - 1))

\* memory before a ger call
GerMem0 == [A |-> [c \in GerCells |-> Old("A", c)]]

\* the per-batch alpha of a call: one value in host pointer mode, one value
\* per batch in device pointer mode
GerAlphas(pm, bc) ==
    IF pm = "host"
    THEN { [b \in 0..(bc - 1) |-> v] : v \in {0, 1, 2} }
    ELSE [0..(bc - 1) -> {0, 2}]

\* the batch counts of a level-2 call
L2Batches == 0..(c_YZ_grid_launch_limit + 1)

\* a ger call
GerInit ==
    /\ \E m \in 0..MaxM, n \in 0..MaxM, bc \in L2Batches, pm \in {"host", "device"} :
         LET quick == m = 0 \/ n = 0 \/ bc = 0
         IN  \E T \in (IF quick THEN {"double"} ELSE {"float", "double", "float_complex"}),
                inc \in (IF quick THEN {<<1, 1>>} ELSE {<<1, 1>>, <<-1, 2>>}),
                al \in (IF quick THEN {[b \in 0..(bc - 1) |-> 2]} ELSE GerAlphas(pm, bc)) :
               \E cj \in (IF T = "float_complex" THEN BOOLEAN ELSE {FALSE}),
                  arch \in (IF quick THEN {900}
                            ELSE IF T = "float" /\ m > sger_m_threshold THEN {900, 910, 942}
                            ELSE IF m > ger_db_m_threshold /\ m = n THEN {900, 910}
                            ELSE {900}) :
                 \E g16 \in (IF ~quick /\ arch = 900 /\ bc > c_YZ_grid_launch_limit
                             THEN BOOLEAN ELSE {FALSE}) :
                   args = [routine |-> "ger", m |-> m, n |-> n, batch_count |-> bc,
                           pointer_mode |-> pm, T |-> T, incx |-> inc[1], incy |-> inc[2],
                           alpha |-> al, CONJ |-> cj, arch |-> arch, grid16 |-> g16,
                           lda |-> m + 1]
    /\ mem = GerMem0
    /\ loads = {}
    /\ stream = <<>>
    /\ done = <<>>
    /\ status = "none"
    /\ pc = "call"
    /\ lanes = <<>>
    /\ shared = <<>>

GerNext == GerCall \/ GerStream

SpecGer == GerInit /\ [][GerNext]_vars

----------------------------------------------------------------------------
(* ger: properties *)

\* the call has returned and the stream has run everything
GerFinished == args.routine = "ger" /\ pc = "ret" /\ stream = <<>>

\* what cell c = <<b, ad>> of A holds after A += alpha * x * y^T (y^H when
\* CONJ): element (i, j), i < m, j < n, is at address i + lda * j
GerRef(a, c) ==
    LET b == c[1]
        i == c[2] % a.lda
        j == c[2] \div a.lda
    IN  IF b < a.batch_count /\ i < a.m /\ j < a.n
        THEN Old("A", c) (+)
             Scale(a.alpha[b], ProdE(Elem("x", b, BlasAddr(i, a.incx, a.m)),
                                     Elem("y", b, BlasAddr(j, a.incy, a.n)), a.CONJ))
        ELSE Old("A", c)

----------------------------------------------------------------------------
(* syr2: A += alpha * x * y^T + alpha * y * x^T on one triangle *)

\* largest order of a syr2 call
Syr2MaxN == 5

\* SYR2_DIM_X and SYR2_DIM_Y of the launcher, scaled down
SYR2_DIM_X == 2

SYR2_DIM_Y == 2

\* x items per x thread
syr2_N_TX(is_float) == IF is_float THEN 2 ELSE 1

\* rocblas_syr2_kernel_calc for lane (lx, ly) of block (bx, by) and batch b:
\* the updates of A
rocblas_syr2_kernel_calc(K, b, bx, by, bz, lx, ly) ==
    LET ty == by * K.DIM_Y + ly
        tx(i) == bx * K.DIM_X * K.N_TX + lx + i * K.DIM_X
    IN  { [loc  |-> <<"A", <<b, tx(i) + ty * K.lda>>>>,
           val  |-> Scale(K.alpha,
                          ProdE(Elem("x", b, K.shiftx + tx(i) * K.incx),
                                Elem("y", b, K.shifty + ty * K.incy), FALSE)
                          (+) ProdE(Elem("y", b, K.shifty + tx(i) * K.incy),
                                    Elem("x", b, K.shiftx + ty * K.incx), FALSE)),
           blk  |-> <<bx, by, bz>>, lane |-> <<lx, ly>>] :
          i \in { j \in 0..(K.N_TX - 1) :
                    IF K.is_upper THEN ty < K.n /\ tx(j) <= ty
                                  ELSE tx(j) < K.n /\ ty <= tx(j) } }

\* a kernel that goes on with a zero alpha
syr2_alpha_ignored(K) == FALSE

\* if(!alpha) return; before the batch loop
syr2_alpha_return(K) == K.alpha = 0

\* rocblas_syr2_kernel, one block
rocblas_syr2_kernel(K, bx, by, bz) ==
    IF syr2_alpha_return(K)
    THEN [adds |-> {}, loads |-> {}]
    ELSE LET bs == BatchLoop(K.grid16, bz, K.batch_count)
             adds == UNION { rocblas_syr2_kernel_calc(K, bs[k], bx, by, bz, ln[1], ln[2]) :
                             k \in 1..Len(bs), ln \in Lanes(K.DIM_X, K.DIM_Y) }
         IN  [adds  |-> adds,
              loads |-> AElems(adds) \cup UNION { LoadsOf(w.val) : w \in adds }]

\* rocblas_internal_syr2_launcher: the status it returns and what it puts on
\* the stream
rocblas_internal_syr2_launcher(a) ==
    IF a.n = 0 \/ a.batch_count = 0
    THEN [status |-> "success", ops |-> <<>>]
    ELSE LET N_TX == syr2_N_TX(a.T = "float")
         IN  [status |-> "success",
              ops |-> << [op |-> "kernel", name |-> "rocblas_syr2_kernel",
                          DIM_X |-> SYR2_DIM_X, DIM_Y |-> SYR2_DIM_Y, N_TX |-> N_TX,
                          is_upper |-> a.uplo = "upper", n |-> a.n, alpha |-> a.alpha,
                          incx |-> a.incx, incy |-> a.incy,
                          shiftx |-> dot_shift(a.incx, a.n), shifty |-> dot_shift(a.incy, a.n),
                          lda |-> a.lda, batch_count |-> a.batch_count, grid16 |-> a.grid16,
                          gridx |-> (a.n - 1) \div (SYR2_DIM_X * N_TX) + 1,
                          gridy |-> (a.n - 1) \div SYR2_DIM_Y + 1,
                          gridz |-> getBatchGridDim(a.grid16, a.batch_count)] >>]

\* the host calls the syr2 launcher
Syr2Call ==
    /\ pc = "call"
    /\ args.routine = "syr2"
    /\ LET r == rocblas_internal_syr2_launcher(args)
       IN  /\ status' = r.status
           /\ stream' = stream \o r.ops
    /\ pc' = "ret"
    /\ UNCHANGED <<args, mem, loads, done, lanes, shared>>

\* the stream runs the syr2 kernel at its head
Syr2Stream ==
    /\ stream # <<>>
    /\ args.routine = "syr2"
    /\ LET K == Head(stream)
           R == [bb \in Blocks3(K) |-> rocblas_syr2_kernel(K, bb[1], bb[2], bb[3])]
       IN  /\ mem' = ApplyAdds(mem, UNION { R[bb].adds : bb \in Blocks3(K) })
           /\ loads' = loads \cup UNION { R[bb].loads : bb \in Blocks3(K) }
           /\ done' = Append(done, K)
    /\ stream' = Tail(stream)
    /\ UNCHANGED <<args, status, pc, lanes, shared>>

\* the cells of A of a syr2 call: lda = n + 1 rows by n columns per batch
Syr2Cells == (0..c_YZ_grid_launch_limit) \X (0..((Syr2MaxN + 1) * Syr2MaxN - 1))

\* a syr2 call
Syr2Init ==
    /\ \E n \in 0..Syr2MaxN, bc \in L2Batches, pm \in {"host", "device"} :
         LET quick == n = 0 \/ bc = 0
         IN  \E T \in (IF quick THEN {"double"} ELSE {"float", "double"}),
                inc \in (IF quick THEN {<<1, 1>>} ELSE {<<1, 1>>, <<-1, 2>>}),
                al \in (IF quick THEN {2} ELSE {0, 2}),
                uplo \in (IF quick THEN {"upper"} ELSE {"upper", "lower"}),
                g16 \in (IF ~quick /\ bc > c_YZ_grid_launch_limit THEN BOOLEAN ELSE {FALSE}) :
               args = [routine |-> "syr2", n |-> n, batch_count |-> bc, pointer_mode |-> pm,
                       T |-> T, incx |-> inc[1], incy |-> inc[2], alpha |-> al,
                       uplo |-> uplo, grid16 |-> g16, lda |-> n + 1]
    /\ mem = [A |-> [c \in Syr2Cells |-> Old("A", c)]]
    /\ loads = {}
    /\ stream = <<>>
    /\ done = <<>>
    /\ status = "none"
    /\ pc = "call"
    /\ lanes = <<>>
    /\ shared = <<>>

Syr2Next == Syr2Call \/ Syr2Stream

\* what cell c = <<b, ad>> of A holds after syr2: element (i, j) of the
\* triangle uplo is at address i + lda * j
Syr2Ref(a, c) ==
    LET b == c[1]
        i == c[2] % a.lda
        j == c[2] \div a.lda
    IN  IF /\ b < a.batch_count /\ i < a.n /\ j < a.n
           /\ IF a.uplo = "upper" THEN i <= j ELSE j <= i
        THEN Old("A", c) (+)
             Scale(a.alpha, ProdE(Elem("x", b, BlasAddr(i, a.incx, a.n)),
                                  Elem("y", b, BlasAddr(j, a.incy, a.n)), FALSE)
                            (+) ProdE(Elem("y", b, BlasAddr(i, a.incy, a.n)),
                                      Elem("x", b, BlasAddr(j, a.incx, a.n)), FALSE))
        ELSE Old("A", c)

----------------------------------------------------------------------------
(* The rank-1 and rank-2 updates together *)

UpdateInit == GerInit \/ Syr2Init

UpdateNext == GerNext \/ Syr2Next

SpecUpdate == UpdateInit /\ [][UpdateNext]_vars

\* the call has returned and the stream has run everything
UpdateFinished == pc = "ret" /\ stream = <<>>

\* alpha of batch b of the call
UpdateAlpha(b) == IF args.routine = "syr2" THEN args.alpha ELSE args.alpha[b]

\* the call passes its quick return
UpdateLaunches ==
    /\ args.batch_count # 0 /\ args.n # 0
    /\ args.routine = "ger" => args.m # 0

\* C6: in ger, gerc and syr2 a batch element with alpha == 0 is a no-op: A is
\* left unmodified and no element of x, y or A of that batch is loaded
C6_AlphaZeroNoOp ==
    \A b \in 0..c_YZ_grid_launch_limit :
        (pc = "ret" /\ UpdateLaunches /\ b < args.batch_count /\ UpdateAlpha(b) = 0)
            => /\ \A c \in DOMAIN mem.A : c[1] = b => mem.A[c] = Old("A", c)
               /\ \A e \in loads : e[2] # b

\* a call with a zero alpha in some batch has run its kernel
C6_Witness ==
    /\ UpdateFinished /\ UpdateLaunches /\ Len(done) = 1
    /\ \E b \in 0..(args.batch_count - 1) : UpdateAlpha(b) = 0
    /\ \E b \in 0..(args.batch_count - 1) : UpdateAlpha(b) # 0 /\ args.routine = "ger"

----------------------------------------------------------------------------
(* gemv: y := alpha * op(A) * x + beta * y, the kernels *)

\* DIM_X and DIM_Y of rocblas_gemvn_kernel, scaled down; a block has at least
\* DIM_X * 4 lanes
gemvn_DIM_X == 1

gemvn_DIM_Y == 4

\* the batches of the batch loop of a block, as a set
LoopBatches(K, bz) ==
    LET bs == BatchLoop(K.grid16, bz, K.batch_count)
    IN  {bs[k] : k \in 1..Len(bs)}

\* x[xi] * op(A)[row + col * lda] of batch b
gemv_prod(K, b, row, col, xi) ==
    ProdE(Elem("x", b, K.shiftx + xi * K.incx), Elem("A", b, row + col * K.lda), K.CONJ)

\* y[i * incy] = beta ? alpha * sum + beta * y[i * incy] : alpha * sum, by a
\* lane of block blk that has loaded the elements ld
gemv_store(K, m, b, i, sum, ld, blk) ==
    LET c == <<b, K.shifty + i * K.incy>>
    IN  [loc   |-> <<"y", c>>,
         val   |-> Scale(K.alpha[b], sum)
                   (+) (IF K.beta[b] # 0 THEN Scale(K.beta[b], m.y[c]) ELSE Zero),
         blk   |-> blk,
         add   |-> FALSE,
         loads |-> ld \cup (IF K.beta[b] # 0 THEN {Elem("y", b, c[2])} ELSE {})]

\* for(col = c0; col < lim; col += step): the values of col the body sees
RECURSIVE gemvn_cols(_, _, _)
gemvn_cols(col, lim, step) ==
    IF col < lim THEN {col} \cup gemvn_cols(col + step, lim, step) ELSE {}

\* the value of col after that loop
RECURSIVE gemvn_col_end(_, _, _)
gemvn_col_end(col, lim, step) ==
    IF col < lim THEN gemvn_col_end(col + step, lim, step) ELSE col

\* rocblas_gemvn_kernel_calc: the columns whose products lane row ty adds to
\* the partial sum of a row, main loop and tail
gemvn_lane_cols(K, ty) ==
    LET n_tail == K.n % (4 * K.DIM_Y)
        lim    == K.n - n_tail
        col    == gemvn_col_end(ty * 4, lim, 4 * K.DIM_Y)
    IN  UNION { {c, c + 1, c + 2, c + 3} : c \in gemvn_cols(ty * 4, lim, 4 * K.DIM_Y) }
        \cup (IF n_tail > 0 THEN {c \in col..(col + 3) : c < K.n} ELSE {})

\* the elements of A the tail loads only to multiply them by zero: column
\* (col + k) * (col + k < n) = 0 of the row
gemvn_tail_pad(K, b, row, ty) ==
    LET n_tail == K.n % (4 * K.DIM_Y)
        col    == gemvn_col_end(ty * 4, K.n - n_tail, 4 * K.DIM_Y)
    IN  IF n_tail > 0 /\ col + 3 >= K.n THEN {Elem("A", b, row)} ELSE {}

\* res_A of lane row ty for the row
gemvn_res_A(K, b, row, ty) ==
    BSum([c \in gemvn_lane_cols(K, ty) |-> gemv_prod(K, b, row, c, c)])

\* rocblas_gemvn_kernel_calc, one block for batch b: the stores to y
rocblas_gemvn_kernel_calc(K, m, b, bx, bz) ==
    LET rows == { ind \in { bx * K.DIM_X * 4 + t :
                            t \in 0..(Min(K.DIM_X * 4, K.DIM_X * K.DIM_Y) - 1) } : ind < K.m }
    IN  IF K.alpha[b] = 0
        THEN { gemv_store(K, m, b, ind, Zero, {}, <<bx, 0, bz>>) : ind \in rows }
        ELSE { gemv_store(K, m, b, ind,
                          BSum([ty \in 0..(K.DIM_Y - 1) |-> gemvn_res_A(K, b, ind, ty)]),
                          UNION { LoadsOf(gemvn_res_A(K, b, ind, ty))
                                  \cup gemvn_tail_pad(K, b, ind, ty)
                                  \cup { Elem("x", b, K.shiftx + c * K.incx) :
                                         c \in gemvn_lane_cols(K, ty) } :
                                  ty \in 0..(K.DIM_Y - 1) },
                          <<bx, 0, bz>>) : ind \in rows }

\* the overload of rocblas_gemvn_kernel_calc for double complex: one row per
\* lane column, one column per step
gemvn_z_lane_cols(K, ty) ==
    LET n_tail == K.n % K.DIM_Y
        lim    == K.n - n_tail
        col    == gemvn_col_end(ty, lim, K.DIM_Y)
    IN  gemvn_cols(ty, lim, K.DIM_Y) \cup (IF n_tail > 0 /\ col < K.n THEN {col} ELSE {})

rocblas_gemvn_kernel_calc_z(K, m, b, bx, bz) ==
    LET rows == { ind \in { bx * K.DIM_X + t : t \in 0..(K.DIM_X - 1) } : ind < K.m }
        res(ind, ty) == BSum([c \in gemvn_z_lane_cols(K, ty) |-> gemv_prod(K, b, ind, c, c)])
        pad(ind, ty) ==
            IF K.n % K.DIM_Y > 0 /\ gemvn_col_end(ty, K.n - (K.n % K.DIM_Y), K.DIM_Y) >= K.n
            THEN {Elem("A", b, ind)} ELSE {}
    IN  IF K.alpha[b] = 0
        THEN { gemv_store(K, m, b, ind, Zero, {}, <<bx, 0, bz>>) : ind \in rows }
        ELSE { gemv_store(K, m, b, ind,
                          BSum([ty \in 0..(K.DIM_Y - 1) |-> res(ind, ty)]),
                          UNION { LoadsOf(res(ind, ty)) \cup pad(ind, ty) :
                                  ty \in 0..(K.DIM_Y - 1) },
                          <<bx, 0, bz>>) : ind \in rows }

\* a batch a kernel skips although its alpha is zero and its beta is one
gemv_noop_ignored(K, b) == FALSE

\* if(!alpha && beta == 1) continue (or return)
gemv_noop(K, b) == K.alpha[b] = 0 /\ K.beta[b] = 1

\* rocblas_gemvn_kernel, one block
rocblas_gemvn_kernel(K, m, bx, by, bz) ==
    UNION { IF gemv_noop(K, b) THEN {}
            ELSE IF K.T = "double_complex"
                 THEN rocblas_gemvn_kernel_calc_z(K, m, b, bx, bz)
                 ELSE rocblas_gemvn_kernel_calc(K, m, b, bx, bz) :
            b \in LoopBatches(K, bz) }

\* a scaling kernel whose blocks each run over the whole of y
gemv_scal_kernel_untiled(K, m, bx, by, bz) ==
    UNION { IF K.beta[b] = 1 THEN {}
            ELSE { gemv_store([K EXCEPT !.alpha = [q \in DOMAIN K.alpha |-> 0]],
                              m, b, tid, Zero, {}, <<bx, 0, bz>>) :
                   tid \in 0..(K.n - 1) } :
            b \in LoopBatches(K, bz) }

\* rocblas_gemv_scal_kernel, one block of NB lanes: y := beta * y unless
\* beta is one
rocblas_gemv_scal_kernel(K, m, bx, by, bz) ==
    UNION { IF K.beta[b] = 1 THEN {}
            ELSE { gemv_store([K EXCEPT !.alpha = [q \in DOMAIN K.alpha |-> 0]],
                              m, b, tid, Zero, {}, <<bx, 0, bz>>) :
                   tid \in { t \in (bx * K.NB)..(bx * K.NB + K.NB - 1) : t < K.n } } :
            b \in LoopBatches(K, bz) }

\* NB_X of rocblas_gemvt_kernel and rocblas_gemvt_warp_reduce_kernel, scaled
\* down
gemvt_NB_X == 2

\* the rows lane tx of a gemvt block adds up: tx + i for i = 0, NB_X, ...
\* below m_full, and tx + m_full when that is below m
gemvt_lane_rows(K, tx) ==
    LET m_full == (K.m \div K.NB_X) * K.NB_X
    IN  { tx + i : i \in gemvn_cols(0, m_full, K.NB_X) }
        \cup (IF tx + m_full < K.m THEN {tx + m_full} ELSE {})

\* a gemvt block that forms its sum without testing alpha first
gemvt_kernel_calc_untested(K, m, b, bx, bz) ==
    LET res(tx) == BSum([r \in gemvt_lane_rows(K, tx) |-> gemv_prod(K, b, r, bx, r)])
        sum == BSum([tx \in 0..(K.NB_X - 1) |-> res(tx)])
    IN  {gemv_store(K, m, b, bx, sum, LoadsOf(sum), <<bx, 0, bz>>)}

\* rocblas_gemvt_kernel_calc and rocblas_gemvt_reduce_kernel_calc, the block
\* of column bx for batch b: the partial sums of the lanes, reduced, stored by
\* lane 0
rocblas_gemvt_kernel_calc(K, m, b, bx, bz) ==
    IF K.alpha[b] = 0
    THEN {gemv_store(K, m, b, bx, Zero, {}, <<bx, 0, bz>>)}
    ELSE LET res(tx) == BSum([r \in gemvt_lane_rows(K, tx) |-> gemv_prod(K, b, r, bx, r)])
             sum == BSum([tx \in 0..(K.NB_X - 1) |-> res(tx)])
         IN  {gemv_store(K, m, b, bx, sum, LoadsOf(sum), <<bx, 0, bz>>)}

\* rocblas_gemvt_kernel and rocblas_gemvt_warp_reduce_kernel, one block
rocblas_gemvt_kernel(K, m, bx, by, bz) ==
    UNION { IF gemv_noop(K, b) THEN {} ELSE rocblas_gemvt_kernel_calc(K, m, b, bx, bz) :
            b \in LoopBatches(K, bz) }

\* TILE_DIM_X and TILE_DIM_Y of the row-vectorized gemvt kernel, scaled down
gemvt_rv_TILE_DIM_X == 2

gemvt_rv_TILE_DIM_Y == 2

\* the number of consecutive rows a lane loads at once
gemvt_rv_width(T) ==
    CASE T = "float" -> 8
      [] T = "double" -> 4
      [] T = "float_complex" -> 4
      [] OTHER -> 2

\* the kernels compiled for gfx90a and gfx942 only
gfx90a_or_gfx942(arch) == arch \in {910, 942}

\* rocblas_gemvt_row_vectorized_kernel_calc, one block for batch b: lane
\* (tx, ty) adds up the rows row_base .. row_base + width - 1 of column y_col
\* for row_base = tx * width, tx * width + stride, ...
rocblas_gemvt_row_vectorized_kernel_calc(K, m, b, bx, bz) ==
    LET V == gemvt_rv_width(K.T)
        rows(tx) == { r \in UNION { rb..(rb + V - 1) :
                                    rb \in gemvn_cols(tx * V, K.m, K.DIM_X * V) } : r < K.m }
        psum(tx, col) == BSum([r \in rows(tx) |-> gemv_prod(K, b, r, col, r)])
        sum(col) == BSum([tx \in 0..(K.DIM_X - 1) |-> psum(tx, col)])
    IN  { IF K.alpha[b] = 0
          THEN gemv_store(K, m, b, y_col, Zero, {}, <<bx, 0, bz>>)
          ELSE gemv_store(K, m, b, y_col, sum(y_col), LoadsOf(sum(y_col)), <<bx, 0, bz>>) :
          y_col \in { c \in (bx * K.DIM_Y)..(bx * K.DIM_Y + K.DIM_Y - 1) : c < K.n } }

\* rocblas_gemvt_row_vectorized_kernel, one block
rocblas_gemvt_row_vectorized_kernel(K, m, bx, by, bz) ==
    IF ~gfx90a_or_gfx942(K.arch) THEN {}
    ELSE UNION { rocblas_gemvt_row_vectorized_kernel_calc(K, m, b, bx, bz) :
                 b \in LoopBatches(K, bz) }

\* NB_X and WIN of the skinny-n gemvt kernel and of its reduction, scaled down
gemvt_sn_NB_X == 2

gemvt_sn_WIN == 2

\* the rows lane tx of block bx of rocblas_gemvt_sn_kernel_calc adds up
gemvt_sn_lane_rows(K, bx, tx) ==
    LET row == tx * K.WIN + bx * K.NB_X * K.WIN
        m_tail == K.m % K.WIN
    IN  IF row + K.WIN <= K.m THEN row..(row + K.WIN - 1)
        ELSE IF row + m_tail <= K.m THEN row..(row + m_tail - 1)
        ELSE {}

\* rocblas_gemvt_sn_kernel, one block: the partial sum of the block for every
\* column, times alpha, to workspace[blockIdx.x + col * gridDim.x] of the batch
rocblas_gemvt_sn_kernel(K, m, bx, by, bz) ==
    UNION { { LET sum == BSum([q \in { <<tx, r>> : tx \in 0..(K.NB_X - 1), r \in 0..(K.m - 1) }
                                 |-> IF q[2] \in gemvt_sn_lane_rows(K, bx, q[1])
                                     THEN gemv_prod(K, b, q[2], i, q[2]) ELSE Zero])
              IN  [loc   |-> <<"w", K.gridx * K.n * b + bx + i * K.gridx>>,
                   val   |-> Scale(K.alpha[b], sum),
                   blk   |-> <<bx, 0, bz>>,
                   add   |-> FALSE,
                   loads |-> IF K.alpha[b] = 0 THEN {} ELSE LoadsOf(sum)] :
              i \in 0..(K.n - 1) } :
            b \in LoopBatches(K, bz) }

\* the workspace entries lane tx of rocblas_gemvt_sn_reduce_calc adds up
gemvt_sn_reduce_lane(K, tx) ==
    LET remainder == K.n_sums % K.WIN
        end == K.n_sums - remainder
    IN  UNION { i..(i + K.WIN - 1) : i \in gemvn_cols(tx * K.WIN, end, K.NB_X * K.WIN) }
        \cup (IF tx < remainder THEN {K.n_sums - 1 - tx} ELSE {})

\* rocblas_gemvt_sn_reduce, the block of column by: y = beta ? y * beta + sum
\* : sum
rocblas_gemvt_sn_reduce(K, m, bx, by, bz) ==
    { LET offset == K.n_sums * (K.gridy * b + by)
          sum == BSum([q \in { <<tx, i>> : tx \in 0..(K.NB_X - 1), i \in 0..(K.n_sums - 1) }
                         |-> IF q[2] \in gemvt_sn_reduce_lane(K, q[1])
                             THEN m.w[offset + q[2]] ELSE Zero])
          c == <<b, K.shifty + by * K.incy>>
      IN  [loc   |-> <<"y", c>>,
           val   |-> sum (+) (IF K.beta[b] # 0 THEN Scale(K.beta[b], m.y[c]) ELSE Zero),
           blk   |-> <<bx, by, bz>>,
           add   |-> FALSE,
           loads |-> IF K.beta[b] # 0 THEN {Elem("y", b, c[2])} ELSE {}] :
      b \in LoopBatches(K, bz) }

\* NB_X of rocblas_gemvtsm_kernel and the largest m it is launched for, the
\* length of shared_x, scaled down
gemvtsm_NB_X == 3

gemvtsm_m_limit == 3

\* rocblas_gemvtsm_kernel, the block of batch bx: alpha * x staged in shared_x
\* by the lanes below m, every column of a lane summed over the m rows
rocblas_gemvtsm_kernel(K, m, bx, by, bz) ==
    LET b == bx
        shared_x(l) == IF l < K.NB_X THEN Elem("x", b, K.shiftx + l * K.incx) ELSE Undef
        res(col) == BSum([l \in 0..(K.m - 1) |->
                            ProdE(shared_x(l), Elem("A", b, l + col * K.lda), K.CONJ)])
        cols == { c \in UNION { {i + tx : tx \in 0..(K.NB_X - 1)} :
                                i \in gemvn_cols(0, K.n, K.NB_X) } : c < K.n }
    IN  IF gemv_noop(K, b) THEN {}
        ELSE IF K.alpha[b] = 0
        THEN { gemv_store(K, m, b, col, Zero, {}, <<bx, 0, 0>>) : col \in cols }
        ELSE { gemv_store(K, m, b, col, res(col), LoadsOf(res(col)), <<bx, 0, 0>>) :
               col \in cols }

\* NB_X and NB_BATCH of rocblas_gemvn_sm_mn_batched_kernel, scaled down; the
\* kernel is launched for m and n up to NB_X
sm_mn_NB_X == 2

sm_mn_NB_BATCH == 2

\* the batch of lane row ty of block bx
sm_mn_batch(K, bx, ty) == bx * K.NB_BATCH + ty

\* rocblas_gemvn_sm_mn_batched_kernel, one block: lane row ty handles batch
\* blockIdx.x * blockDim.y + ty, lane tx the row tx
rocblas_gemvn_sm_mn_batched_kernel(K, m, bx, by, bz) ==
    IF ~gfx90a_or_gfx942(K.arch) THEN {}
    ELSE UNION {
           LET b == sm_mn_batch(K, bx, ty)
               sx(j) == IF j < K.NB_X THEN Elem("x", b, K.shiftx + j * K.incx) ELSE Undef
               res(tx) == BSum([j \in { q \in 0..(K.NB_X - 1) : q < K.n } |->
                                  ProdE(sx(j), Elem("A", b, j * K.lda + tx), K.CONJ)])
               rows == { tx \in 0..(K.NB_X - 1) : tx < K.m }
           IN  IF b >= K.batch_count \/ gemv_noop(K, b) THEN {}
               ELSE IF K.alpha[b] = 0
               THEN { gemv_store(K, m, b, tx, Zero, {}, <<bx, 0, 0>>) : tx \in rows }
               ELSE { gemv_store(K, m, b, tx, res(tx), LoadsOf(res(tx)), <<bx, 0, 0>>) :
                      tx \in rows } :
           ty \in 0..(K.NB_BATCH - 1) }

\* DIM_Y and DIM_X of the double-buffered gemv kernels, scaled down; a lane
\* holds elements_per_thread = DIM_X / (2 * DIM_Y) columns, one here
gemv_db_DIM_Y == 1

gemv_db_DIM_X == 2 * gemv_db_DIM_Y

\* count and start of block row (column) by: the tiles of DIM_X columns (rows)
\* the block adds up
gemv_db_count(K, len, by) ==
    (len \div K.DIM_X) \div K.gridy + (IF by < (len \div K.DIM_X) % K.gridy THEN 1 ELSE 0)

gemv_db_start(K, len, by) ==
    by * ((len \div K.DIM_X) \div K.gridy) + Min(by, (len \div K.DIM_X) % K.gridy)

\* atomicAdd(&y[i * incy], alpha * sum) by lane tx of block blk
gemv_atomic_add(K, b, i, sum, blk, tx) ==
    [loc   |-> <<"y", <<b, K.shifty + i * K.incy>>>>,
     val   |-> Scale(K.alpha[b], sum),
     blk   |-> blk,
     lane  |-> tx,
     add   |-> TRUE,
     loads |-> LoadsOf(sum) \cup {Elem("y", b, K.shifty + i * K.incy)}]

\* the lanes of a double-buffered block by tx_ and ty_
gemv_db_lanes(K) ==
    { <<(K.DIM_X * l[2] + l[1]) % (K.DIM_X \div 2), (K.DIM_X * l[2] + l[1]) \div (K.DIM_X \div 2)>> :
      l \in Lanes(K.DIM_X, K.DIM_Y) }

\* rocblas_gemvn_double_buffered_kernel_calc, one block for batch b: lane
\* (tx_, ty_) adds up rows tx_ and tx_ + DIM_X / 2 of the tile over its
\* elements_per_thread columns of every tile of the block; the lanes ty = 0 add
\* up la and add the row's sum to y
rocblas_gemvn_double_buffered_kernel_calc(K, b, bx, by, bz) ==
    LET count == gemv_db_count(K, K.n, by)
        start == gemv_db_start(K, K.n, by)
        ept   == K.ept
        col(V, ty_, k) == (start + V) * K.DIM_X + ty_ * ept + k
        res(row, ty_) ==
            BSum([q \in (0..(count - 1)) \X (0..(ept - 1)) |->
                    gemv_prod(K, b, bx * K.DIM_X + row, col(q[1], ty_, q[2]), col(q[1], ty_, q[2]))])
        la(i) == LET ty_ == i \div K.DIM_X
                     r   == i % K.DIM_X
                 IN  IF <<r % (K.DIM_X \div 2), ty_>> \in gemv_db_lanes(K)
                     THEN res(r, ty_) ELSE Term(Undef)
    IN  IF count = 0 THEN {}
        ELSE { gemv_atomic_add(K, b, bx * K.DIM_X + tx,
                               BSum([k \in 0..(2 * K.DIM_Y - 1) |-> la(k * K.DIM_X + tx)]),
                               <<bx, by, bz>>, tx) : tx \in 0..(K.DIM_X - 1) }

\* rocblas_gemvt_double_buffered_kernel_calc, one block for batch b: lane
\* (tx_, ty_) adds up, for each of its columns, rows tx_ and tx_ + DIM_X / 2 of
\* every tile of the block; lane tx with ty = 0 adds up row tx of la and adds
\* the column's sum to y
rocblas_gemvt_double_buffered_kernel_calc(K, b, bx, by, bz) ==
    LET count == gemv_db_count(K, K.m, by)
        start == gemv_db_start(K, K.m, by)
        ept   == K.ept
        half  == K.DIM_X \div 2
        row(V, tx_) == (start + V) * K.DIM_X + tx_
        treg(c, tx_) ==
            BSum([V \in 0..(count - 1) |->
                    gemv_prod(K, b, row(V, tx_), bx * K.DIM_X + c, row(V, tx_))
                    (+) gemv_prod(K, b, row(V, tx_) + half, bx * K.DIM_X + c, row(V, tx_) + half)])
        la(i) == LET c   == i \div half
                     tx_ == i % half
                 IN  IF <<tx_, c \div ept>> \in gemv_db_lanes(K)
                     THEN treg(c, tx_) ELSE Term(Undef)
    IN  IF count = 0 THEN {}
        ELSE { gemv_atomic_add(K, b, bx * K.DIM_X + tx,
                               BSum([k \in tx..(tx + half - 1) |-> la(tx * half + (k % half))]),
                               <<bx, by, bz>>, tx) : tx \in 0..(K.DIM_X - 1) }

\* rocblas_gemvn_double_buffered_kernel and
\* rocblas_gemvt_double_buffered_kernel, one block: a batch with a zero alpha
\* is skipped
rocblas_gemv_double_buffered_kernel(K, m, bx, by, bz) ==
    UNION { IF K.alpha[b] = 0 THEN {}
            ELSE IF K.name = "rocblas_gemvn_double_buffered_kernel"
                 THEN rocblas_gemvn_double_buffered_kernel_calc(K, b, bx, by, bz)
                 ELSE rocblas_gemvt_double_buffered_kernel_calc(K, b, bx, by, bz) :
            b \in LoopBatches(K, bz) }

----------------------------------------------------------------------------
(* gemv: the launches of a call and the stream *)

\* NB of rocblas_gemv_scal_kernel, scaled down
gemv_scal_NB == 2

\* the length of y and of x of a call
gemv_ylen(a) == IF a.trans = "N" THEN a.m ELSE a.n

gemv_xlen(a) == IF a.trans = "N" THEN a.n ELSE a.m

\* the arguments every gemv kernel launch of a call has
GemvArgs(a) ==
    [op |-> "kernel", T |-> a.T, arch |-> a.arch, m |-> a.m, n |-> a.n,
     alpha |-> a.alpha, beta |-> a.beta, lda |-> a.lda, incx |-> a.incx, incy |-> a.incy,
     shiftx |-> dot_shift(a.incx, gemv_xlen(a)), shifty |-> dot_shift(a.incy, gemv_ylen(a)),
     CONJ |-> a.trans = "C", batch_count |-> a.batch_count, grid16 |-> a.grid16]

\* the kernels a gemv call puts on the stream, by the tiling path the call
\* takes
gemv_launch(a) ==
    LET batches == getBatchGridDim(a.grid16, a.batch_count)
        scal == [name |-> "rocblas_gemv_scal_kernel", NB |-> gemv_scal_NB,
                 gridx |-> (gemv_ylen(a) - 1) \div gemv_scal_NB + 1, gridy |-> 1,
                 gridz |-> batches] @@ [GemvArgs(a) EXCEPT !.n = gemv_ylen(a)]
        db(name) == [name |-> name, DIM_X |-> gemv_db_DIM_X, DIM_Y |-> gemv_db_DIM_Y,
                     ept |-> gemv_db_DIM_X \div (2 * gemv_db_DIM_Y),
                     gridx |-> gemv_ylen(a) \div gemv_db_DIM_X, gridy |-> a.gridy,
                     gridz |-> batches] @@ GemvArgs(a)
    IN  CASE a.path = "gemvn" ->
               << [name |-> "rocblas_gemvn_kernel", DIM_X |-> gemvn_DIM_X, DIM_Y |-> gemvn_DIM_Y,
                   gridx |-> IF a.T = "double_complex" THEN (a.m - 1) \div gemvn_DIM_X + 1
                             ELSE (a.m - 1) \div (gemvn_DIM_X * 4) + 1,
                   gridy |-> 1, gridz |-> batches] @@ GemvArgs(a) >>
          [] a.path = "gemvn_double_buffered" ->
               << scal, db("rocblas_gemvn_double_buffered_kernel") >>
          [] a.path = "gemvn_sm_mn_batched" ->
               << [name |-> "rocblas_gemvn_sm_mn_batched_kernel", NB_X |-> sm_mn_NB_X,
                   NB_BATCH |-> sm_mn_NB_BATCH,
                   gridx |-> (a.batch_count - 1) \div sm_mn_NB_BATCH + 1,
                   gridy |-> 1, gridz |-> 1] @@ GemvArgs(a) >>
          [] a.path \in {"gemvt", "gemvt_warp_reduce"} ->
               << [name |-> IF a.path = "gemvt" THEN "rocblas_gemvt_kernel"
                            ELSE "rocblas_gemvt_warp_reduce_kernel",
                   NB_X |-> gemvt_NB_X, gridx |-> a.n, gridy |-> 1,
                   gridz |-> batches] @@ GemvArgs(a) >>
          [] a.path = "gemvt_row_vectorized" ->
               << [name |-> "rocblas_gemvt_row_vectorized_kernel",
                   DIM_X |-> gemvt_rv_TILE_DIM_X, DIM_Y |-> gemvt_rv_TILE_DIM_Y,
                   gridx |-> (a.n - 1) \div gemvt_rv_TILE_DIM_Y + 1, gridy |-> 1,
                   gridz |-> batches] @@ GemvArgs(a) >>
          [] a.path = "gemvt_sn" ->
               LET blocks == (a.m - 1) \div (gemvt_sn_NB_X * gemvt_sn_WIN) + 1
               IN  << [name |-> "rocblas_gemvt_sn_kernel", NB_X |-> gemvt_sn_NB_X,
                       WIN |-> gemvt_sn_WIN, gridx |-> blocks, gridy |-> 1,
                       gridz |-> batches] @@ GemvArgs(a),
                      [name |-> "rocblas_gemvt_sn_reduce", NB_X |-> gemvt_sn_NB_X,
                       WIN |-> gemvt_sn_WIN, n_sums |-> blocks, gridx |-> 1, gridy |-> a.n,
                       gridz |-> batches] @@ GemvArgs(a) >>
          [] a.path = "gemvtsm" ->
               << [name |-> "rocblas_gemvtsm_kernel", NB_X |-> gemvtsm_NB_X,
                   gridx |-> a.batch_count, gridy |-> 1, gridz |-> 1] @@ GemvArgs(a) >>
          [] OTHER ->
               << scal, db("rocblas_gemvt_double_buffered_kernel") >>

\* one block of a gemv kernel, memory being m: what it stores and adds
gemv_block(K, m, bb) ==
    CASE K.name = "rocblas_gemv_scal_kernel" -> rocblas_gemv_scal_kernel(K, m, bb[1], bb[2], bb[3])
      [] K.name = "rocblas_gemvn_kernel" -> rocblas_gemvn_kernel(K, m, bb[1], bb[2], bb[3])
      [] K.name = "rocblas_gemvn_sm_mn_batched_kernel" ->
             rocblas_gemvn_sm_mn_batched_kernel(K, m, bb[1], bb[2], bb[3])
      [] K.name \in {"rocblas_gemvt_kernel", "rocblas_gemvt_warp_reduce_kernel"} ->
             rocblas_gemvt_kernel(K, m, bb[1], bb[2], bb[3])
      [] K.name = "rocblas_gemvt_row_vectorized_kernel" ->
             rocblas_gemvt_row_vectorized_kernel(K, m, bb[1], bb[2], bb[3])
      [] K.name = "rocblas_gemvt_sn_kernel" -> rocblas_gemvt_sn_kernel(K, m, bb[1], bb[2], bb[3])
      [] K.name = "rocblas_gemvt_sn_reduce" -> rocblas_gemvt_sn_reduce(K, m, bb[1], bb[2], bb[3])
      [] K.name = "rocblas_gemvtsm_kernel" -> rocblas_gemvtsm_kernel(K, m, bb[1], bb[2], bb[3])
      [] OTHER -> rocblas_gemv_double_buffered_kernel(K, m, bb[1], bb[2], bb[3])

\* everything the blocks of a launch store and add
gemv_kernel_writes(K, m) == UNION { gemv_block(K, m, bb) : bb \in Blocks3(K) }

\* the host calls gemv
GemvCall ==
    /\ pc = "call"
    /\ args.routine = "gemv"
    /\ status' = "success"
    /\ stream' = stream \o gemv_launch(args)
    /\ pc' = "ret"
    /\ UNCHANGED <<args, mem, loads, done, lanes, shared>>

\* the stream runs the gemv kernel at its head
GemvStream ==
    /\ stream # <<>>
    /\ args.routine = "gemv"
    /\ LET K == Head(stream)
           W == gemv_kernel_writes(K, mem)
       IN  /\ mem' = ApplyAdds(ApplyWrites(mem, {w \in W : ~w.add}), {w \in W : w.add})
           /\ loads' = loads \cup UNION { w.loads : w \in W }
           /\ done' = Append(done, K)
    /\ stream' = Tail(stream)
    /\ UNCHANGED <<args, status, pc, lanes, shared>>

\* largest number of rows of a gemv call
GemvMaxM == 5

\* the shapes of the gemv calls: the tiling path with an operation, element
\* type, architecture and sizes for which that path is taken
GemvShapes ==
    { [path |-> "gemvn", trans |-> "N", T |-> "float", arch |-> 900, m |-> m, n |-> n, gridy |-> 1] :
      m \in 1..GemvMaxM, n \in {1, 4 * gemvn_DIM_Y, 4 * gemvn_DIM_Y + 2} }
    \cup
    { [path |-> "gemvn", trans |-> "N", T |-> "double_complex", arch |-> 900, m |-> m, n |-> n,
       gridy |-> 1] : m \in 1..(gemvn_DIM_X + 1), n \in {1, gemvn_DIM_Y, gemvn_DIM_Y + 1} }
    \cup
    { [path |-> p, trans |-> IF p = "gemvn_double_buffered" THEN "N" ELSE "T", T |-> "double",
       arch |-> 910, m |-> k * gemv_db_DIM_X, n |-> k * gemv_db_DIM_X, gridy |-> gy] :
      p \in {"gemvn_double_buffered", "gemvt_double_buffered"}, k \in 1..2, gy \in 1..2 }
    \cup
    { [path |-> "gemvn_sm_mn_batched", trans |-> "N", T |-> "double", arch |-> 942, m |-> m,
       n |-> n, gridy |-> 1] : m \in 1..sm_mn_NB_X, n \in 1..sm_mn_NB_X }
    \cup
    { [path |-> q[1], trans |-> q[2][1], T |-> q[2][2], arch |-> 900, m |-> m, n |-> n, gridy |-> 1] :
      q \in {"gemvt", "gemvt_warp_reduce"} \X {<<"T", "double">>, <<"C", "float_complex">>},
      m \in 1..GemvMaxM, n \in 1..2 }
    \cup
    { [path |-> "gemvt_row_vectorized", trans |-> q[1], T |-> q[2], arch |-> 942, m |-> m, n |-> n,
       gridy |-> 1] :
      q \in {<<"T", "double">>, <<"C", "double_complex">>},
      m \in 1..(GemvMaxM + 1), n \in 1..(gemvt_rv_TILE_DIM_Y + 1) }
    \cup
    { [path |-> "gemvt_sn", trans |-> "T", T |-> "double", arch |-> 900, m |-> m, n |-> n,
       gridy |-> 1] : m \in 1..(GemvMaxM + 1), n \in {1, 4, 5} }
    \cup
    { [path |-> "gemvtsm", trans |-> "T", T |-> "double", arch |-> 900, m |-> m, n |-> n,
       gridy |-> 1] : m \in 1..gemvtsm_m_limit, n \in 1..(gemvtsm_NB_X + 1) }

\* the (alpha, beta) pairs of a call: one pair in host pointer mode, one pair
\* per batch in device pointer mode
GemvCoeffs(pm, bc) ==
    IF pm = "host"
    THEN { [b \in 0..(bc - 1) |-> p] :
           p \in IF bc = 1 THEN {<<0, 0>>, <<0, 1>>, <<0, 2>>, <<1, 0>>, <<2, 1>>}
                 ELSE {<<0, 1>>, <<2, 1>>} }
    ELSE { f \in [0..(bc - 1) -> {<<0, 1>>, <<2, 0>>, <<1, 2>>}] : f[bc - 1] # <<1, 2>> }

\* the cells of y and of the workspace of a gemv call
GemvYCells == (0..c_YZ_grid_launch_limit) \X (0..(2 * Max(GemvMaxM, 2 * gemv_db_DIM_X) + 1))

GemvWCells == 0..((c_YZ_grid_launch_limit + 1) * 5 * 2 - 1)

\* the paths whose kernels have the batch loop
gemv_has_batch_loop(path) == path \notin {"gemvtsm", "gemvn_sm_mn_batched"}

\* a gemv call
GemvInit ==
    /\ \E sh \in GemvShapes, bc \in {1, c_YZ_grid_launch_limit + 1}, pm \in {"host", "device"} :
         \E f \in GemvCoeffs(pm, bc),
            inc \in (IF bc = 1 THEN {<<1, 1>>, <<-1, 2>>} ELSE {<<1, 1>>}),
            g16 \in (IF bc > c_YZ_grid_launch_limit /\ gemv_has_batch_loop(sh.path)
                     THEN BOOLEAN ELSE {FALSE}) :
           args = [routine |-> "gemv", path |-> sh.path, trans |-> sh.trans, T |-> sh.T,
                   arch |-> sh.arch, m |-> sh.m, n |-> sh.n, gridy |-> sh.gridy,
                   batch_count |-> bc, pointer_mode |-> pm, incx |-> inc[1], incy |-> inc[2],
                   alpha |-> [b \in 0..(bc - 1) |-> f[b][1]],
                   beta |-> [b \in 0..(bc - 1) |-> f[b][2]],
                   grid16 |-> g16, lda |-> sh.m + 1]
    /\ mem = [y |-> [c \in GemvYCells |-> Old("y", c)], w |-> [i \in GemvWCells |-> Old("w", i)]]
    /\ loads = {}
    /\ stream = <<>>
    /\ done = <<>>
    /\ status = "none"
    /\ pc = "call"
    /\ lanes = <<>>
    /\ shared = <<>>

GemvNext == GemvCall \/ GemvStream

SpecGemv == GemvInit /\ [][GemvNext]_vars

\* the call has returned and the stream has run everything
GemvFinished == args.routine = "gemv" /\ pc = "ret" /\ stream = <<>>

\* what cell c = <<b, ad>> of y holds after y := alpha * op(A) * x + beta * y
GemvRef(a, c) ==
    LET b == c[1]
        I == { i \in 0..(gemv_ylen(a) - 1) : BlasAddr(i, a.incy, gemv_ylen(a)) = c[2] }
    IN  IF b < a.batch_count /\ I # {}
        THEN LET i == CHOOSE k \in I : TRUE
             IN  Scale(a.alpha[b],
                       BSum([j \in 0..(gemv_xlen(a) - 1) |->
                               ProdE(Elem("x", b, BlasAddr(j, a.incx, gemv_xlen(a))),
                                     Elem("A", b, IF a.trans = "N" THEN i + j * a.lda
                                                  ELSE j + i * a.lda),
                                     a.trans = "C")]))
                 (+) Scale(a.beta[b], Old("y", c))
        ELSE Old("y", c)

\* C4: for a gemv batch element with alpha == 0 no element of A or x is ever
\* loaded, y of that batch is not read when beta == 0, and once the call is
\* finished every y[i] of the batch is beta * y_old[i] (0 when beta == 0), on
\* every gemv path
C4_AlphaZero ==
    \A b \in 0..c_YZ_grid_launch_limit :
        (args.routine = "gemv" /\ b < args.batch_count /\ args.alpha[b] = 0)
            => /\ \A e \in loads : e[2] = b => e[1] \notin {"A", "x"}
               /\ args.beta[b] = 0 => \A e \in loads : ~(e[1] = "y" /\ e[2] = b)
               /\ GemvFinished
                    => \A i \in 0..(gemv_ylen(args) - 1) :
                          LET c == <<b, BlasAddr(i, args.incy, gemv_ylen(args))>>
                          IN  mem.y[c] = Scale(args.beta[b], Old("y", c))

\* a finished gemv call with alpha == 0 and beta == 2 on the double-buffered
\* gemvn path, the scaling kernel and the double-buffered kernel both run
C4_Witness ==
    /\ GemvFinished
    /\ Len(done) = 2
    /\ args.path = "gemvn_double_buffered"
    /\ args.alpha[0] = 0
    /\ args.beta[0] = 2

----------------------------------------------------------------------------
(* hbmv, hpmv, sbmv: y := alpha * A * x + beta * y, A Hermitian banded,
   Hermitian packed, symmetric banded *)

\* largest order and largest number of off-diagonals of a call
SymvMaxN == 4

SymvMaxK == 2

\* DIM_X and DIM_Y of the three launchers, scaled down
symv_DIM_X == 2

symv_DIM_Y == 2

\* a product that takes every stored element of A as it is
symv_prod_as_stored(K, b, col, ad, how) ==
    ProdE(Elem("x", b, K.shiftx + col * K.incx), Elem("A", b, ad), "id")

\* x[col] times the stored element of A at address ad, taken as it is ("id"),
\* conjugated ("conj") or with its imaginary part dropped ("real")
symv_prod(K, b, col, ad, how) ==
    ProdE(Elem("x", b, K.shiftx + col * K.incx), Elem("A", b, ad), how)

\* rocblas_hbmvn_kernel_helper: what (ind, col) adds to the partial sum
hbmv_term(K, b, ind, col) ==
    LET row == IF K.is_upper THEN ind + (K.k - col) ELSE ind - col
        trans_row == IF K.is_upper THEN col + (K.k - ind) ELSE col - ind
    IN  IF (ind <= col /\ K.is_upper) \/ (ind >= col /\ ~K.is_upper)
        THEN IF row < K.k /\ row > 0 THEN symv_prod(K, b, col, row + col * K.lda, "id")
             ELSE IF row = 0
                  THEN (IF ~K.is_upper \/ (K.k = 0 /\ K.is_upper)
                        THEN symv_prod(K, b, col, row + col * K.lda, "real")
                        ELSE symv_prod(K, b, col, row + col * K.lda, "id"))
             ELSE IF row = K.k
                  THEN (IF K.is_upper THEN symv_prod(K, b, col, row + col * K.lda, "real")
                        ELSE symv_prod(K, b, col, row + col * K.lda, "id"))
             ELSE Zero
        ELSE IF trans_row <= K.k /\ trans_row >= 0
             THEN symv_prod(K, b, col, trans_row + ind * K.lda, "conj")
             ELSE Zero

\* a symmetric banded helper that never tests the band row
sbmv_term_unbanded(K, b, ind, col) ==
    LET row == IF K.is_upper THEN ind + (K.k - col) ELSE ind - col
        trans_row == IF K.is_upper THEN col + (K.k - ind) ELSE col - ind
    IN  IF (ind <= col /\ K.is_upper) \/ (ind >= col /\ ~K.is_upper)
        THEN symv_prod(K, b, col, row + col * K.lda, "id")
        ELSE symv_prod(K, b, col, trans_row + ind * K.lda, "id")

\* rocblas_sbmv_kernel_helper: what (ind, col) adds to the partial sum
sbmv_term(K, b, ind, col) ==
    LET row == IF K.is_upper THEN ind + (K.k - col) ELSE ind - col
        trans_row == IF K.is_upper THEN col + (K.k - ind) ELSE col - ind
    IN  IF (ind <= col /\ K.is_upper) \/ (ind >= col /\ ~K.is_upper)
        THEN IF row <= K.k /\ row >= 0 THEN symv_prod(K, b, col, row + col * K.lda, "id")
             ELSE Zero
        ELSE IF trans_row <= K.k /\ trans_row >= 0
             THEN symv_prod(K, b, col, trans_row + ind * K.lda, "id")
             ELSE Zero

\* a packed kernel that reads position (ind, col) where the stored triangle
\* would have it, without going to the transposed position
hpmv_term_no_swap(K, b, ind, col) ==
    LET index == IF K.is_upper THEN (col * (col + 1)) \div 2 + ind
                 ELSE (col * (2 * K.n - col + 1)) \div 2 + (ind - col)
    IN  symv_prod(K, b, col, index, IF ind = col THEN "real" ELSE "id")

\* rocblas_hpmv_kernel_calc: what (ind, col) adds to the partial sum
hpmv_term(K, b, ind, col) ==
    LET swap  == (ind > col /\ K.is_upper) \/ (ind < col /\ ~K.is_upper)
        ind_x == IF swap THEN col ELSE ind
        ind_y == IF swap THEN ind ELSE col
        index == IF K.is_upper THEN (ind_y * (ind_y + 1)) \div 2 + ind_x
                 ELSE (ind_y * (2 * K.n - ind_y + 1)) \div 2 + (ind_x - ind_y)
    IN  symv_prod(K, b, col, index,
                  IF ind_x = ind_y THEN "real" ELSE IF swap THEN "conj" ELSE "id")

symv_term(K, b, ind, col) ==
    CASE K.name = "rocblas_hbmvn_kernel" -> hbmv_term(K, b, ind, col)
      [] K.name = "rocblas_hpmv_kernel" -> hpmv_term(K, b, ind, col)
      [] OTHER -> sbmv_term(K, b, ind, col)

\* rocblas_hbmvn_kernel_calc, rocblas_hpmv_kernel_calc and
\* rocblas_sbmv_kernel_calc, one block for batch b: lane (tx, ty) adds up the
\* columns ty, ty + DIM_Y, ... of row ind, the lanes of the first row of the
\* block add up the partial sums and store
symv_kernel_calc(K, m, b, bx, bz) ==
    LET rows == { ind \in (bx * K.DIM_X)..(bx * K.DIM_X + K.DIM_X - 1) : ind < K.n }
        sum(ind) == BSum([col \in UNION { gemvn_cols(ty, K.n, K.DIM_Y) : ty \in 0..(K.DIM_Y - 1) }
                            |-> symv_term(K, b, ind, col)])
    IN  IF K.alpha[b] = 0
        THEN { gemv_store(K, m, b, ind, Zero, {}, <<bx, 0, bz>>) : ind \in rows }
        ELSE { gemv_store(K, m, b, ind, sum(ind),
                          LoadsOf(sum(ind)) \cup { Elem("x", b, K.shiftx + col * K.incx) :
                                                   col \in 0..(K.n - 1) },
                          <<bx, 0, bz>>) : ind \in rows }

\* a kernel that runs the sum for every batch, whatever its alpha and beta
symv_kernel_untested(K, m, bx, by, bz) ==
    UNION { LET rows == { ind \in (bx * K.DIM_X)..(bx * K.DIM_X + K.DIM_X - 1) : ind < K.n }
                sum(ind) == BSum([col \in 0..(K.n - 1) |-> symv_term(K, b, ind, col)])
            IN  { gemv_store(K, m, b, ind, sum(ind), LoadsOf(sum(ind)), <<bx, 0, bz>>) :
                  ind \in rows } :
            b \in LoopBatches(K, bz) }

\* rocblas_hbmvn_kernel, rocblas_hpmv_kernel, rocblas_sbmv_kernel, one block:
\* nothing for a batch with alpha == 0 and beta == 1
symv_kernel(K, m, bx, by, bz) ==
    UNION { IF gemv_noop(K, b) THEN {} ELSE symv_kernel_calc(K, m, b, bx, bz) :
            b \in LoopBatches(K, bz) }

\* the kernel launch of the three launchers
SymvK(name, a) ==
    [op |-> "kernel", name |-> name, DIM_X |-> symv_DIM_X, DIM_Y |-> symv_DIM_Y,
     is_upper |-> a.uplo = "upper", n |-> a.n, k |-> a.k, alpha |-> a.alpha, beta |-> a.beta,
     lda |-> a.lda, incx |-> a.incx, incy |-> a.incy,
     shiftx |-> dot_shift(a.incx, a.n), shifty |-> dot_shift(a.incy, a.n),
     batch_count |-> a.batch_count, grid16 |-> a.grid16,
     gridx |-> (a.n - 1) \div symv_DIM_X + 1, gridy |-> 1,
     gridz |-> getBatchGridDim(a.grid16, a.batch_count)]

\* a launcher that has no quick return for n == 0 or batch_count == 0
symv_no_quick_return(a) == FALSE

\* if(!n || !batch_count) return rocblas_status_success;
symv_quick_return(a) == a.n = 0 \/ a.batch_count = 0

\* rocblas_internal_hbmv_launcher
rocblas_internal_hbmv_launcher(a) ==
    IF symv_quick_return(a) THEN [status |-> "success", ops |-> <<>>]
    ELSE IF a.pointer_mode = "host" /\ a.alpha[0] = 0 /\ a.beta[0] = 1
    THEN [status |-> "success", ops |-> <<>>]
    ELSE [status |-> "success", ops |-> <<SymvK("rocblas_hbmvn_kernel", a)>>]

\* rocblas_hpmv_launcher
rocblas_hpmv_launcher(a) ==
    IF symv_quick_return(a) THEN [status |-> "success", ops |-> <<>>]
    ELSE IF a.pointer_mode = "host" /\ a.alpha[0] = 0 /\ a.beta[0] = 1
    THEN [status |-> "success", ops |-> <<>>]
    ELSE [status |-> "success", ops |-> <<SymvK("rocblas_hpmv_kernel", a)>>]

\* rocblas_internal_sbmv_launcher: in host pointer mode the quick return for
\* alpha == 0 and beta == 1 is taken for batch_count == 1 only
rocblas_internal_sbmv_launcher(a) ==
    IF symv_quick_return(a) THEN [status |-> "success", ops |-> <<>>]
    ELSE IF a.pointer_mode = "host" /\ a.batch_count = 1 /\ a.alpha[0] = 0 /\ a.beta[0] = 1
    THEN [status |-> "success", ops |-> <<>>]
    ELSE [status |-> "success", ops |-> <<SymvK("rocblas_sbmv_kernel", a)>>]

\* the host calls the launcher of hbmv, hpmv or sbmv
SymvCall ==
    /\ pc = "call"
    /\ args.routine \in {"hbmv", "hpmv", "sbmv"}
    /\ LET r == CASE args.routine = "hbmv" -> rocblas_internal_hbmv_launcher(args)
                  [] args.routine = "hpmv" -> rocblas_hpmv_launcher(args)
                  [] OTHER -> rocblas_internal_sbmv_launcher(args)
       IN  /\ status' = r.status
           /\ stream' = stream \o r.ops
    /\ pc' = "ret"
    /\ UNCHANGED <<args, mem, loads, done, lanes, shared>>

\* the stream runs the kernel at its head
SymvStream ==
    /\ stream # <<>>
    /\ args.routine \in {"hbmv", "hpmv", "sbmv"}
    /\ LET K == Head(stream)
           W == UNION { symv_kernel(K, mem, bb[1], bb[2], bb[3]) : bb \in Blocks3(K) }
       IN  /\ mem' = ApplyWrites(mem, W)
           /\ loads' = loads \cup UNION { w.loads : w \in W }
           /\ done' = Append(done, K)
    /\ stream' = Tail(stream)
    /\ UNCHANGED <<args, status, pc, lanes, shared>>

\* alpha and beta of a call: hbmv and hpmv take one pair, sbmv one pair per
\* batch in device pointer mode
SymvCoeffs(routine, pm, bc) ==
    IF routine = "sbmv" /\ pm = "device"
    THEN { f \in [0..(bc - 1) -> {<<0, 1>>, <<2, 0>>, <<1, 2>>}] : bc > 0 => f[bc - 1] # <<1, 2>> }
    ELSE { [b \in 0..(bc - 1) |-> p] : p \in {<<0, 0>>, <<0, 1>>, <<0, 2>>, <<2, 1>>} }

\* a call of hbmv, hpmv or sbmv
SymvInit ==
    /\ \E routine \in {"hbmv", "hpmv", "sbmv"}, n \in 0..SymvMaxN, bc \in L2Batches,
          pm \in {"host", "device"} :
         LET quick == n = 0 \/ bc = 0
         IN  \E k \in (IF quick \/ routine = "hpmv" THEN {0} ELSE 0..SymvMaxK),
                uplo \in (IF quick THEN {"upper"} ELSE {"upper", "lower"}),
                f \in (IF quick THEN {[b \in 0..(bc - 1) |-> <<2, 1>>]}
                       ELSE SymvCoeffs(routine, pm, bc)),
                inc \in (IF quick \/ bc > 1 THEN {<<1, 1>>} ELSE {<<1, 1>>, <<-1, 2>>}),
                g16 \in (IF ~quick /\ bc > c_YZ_grid_launch_limit THEN BOOLEAN ELSE {FALSE}) :
               args = [routine |-> routine, n |-> n, k |-> k, batch_count |-> bc,
                       pointer_mode |-> pm, uplo |-> uplo, incx |-> inc[1], incy |-> inc[2],
                       alpha |-> [b \in 0..(bc - 1) |-> f[b][1]],
                       beta |-> [b \in 0..(bc - 1) |-> f[b][2]],
                       grid16 |-> g16, lda |-> k + 1]
    /\ mem = [y |-> [c \in GemvYCells |-> Old("y", c)]]
    /\ loads = {}
    /\ stream = <<>>
    /\ done = <<>>
    /\ status = "none"
    /\ pc = "call"
    /\ lanes = <<>>
    /\ shared = <<>>

SymvNext == SymvCall \/ SymvStream

\* element (i, j) of the matrix of a call times x[j], from the stored triangle
SymvRefTerm(a, b, i, j) ==
    LET stored == IF a.uplo = "upper" THEN i <= j ELSE i >= j
        si == IF stored THEN i ELSE j
        sj == IF stored THEN j ELSE i
        ad == IF a.routine = "hpmv"
              THEN (IF a.uplo = "upper" THEN (sj * (sj + 1)) \div 2 + si
                    ELSE (sj * (2 * a.n - sj + 1)) \div 2 + (si - sj))
              ELSE (IF a.uplo = "upper" THEN a.k + si - sj ELSE si - sj) + sj * a.lda
        how == IF a.routine = "sbmv" THEN "id"
               ELSE IF i = j THEN "real" ELSE IF stored THEN "id" ELSE "conj"
    IN  IF a.routine # "hpmv" /\ (i - j > a.k \/ j - i > a.k) THEN Zero
        ELSE ProdE(Elem("x", b, BlasAddr(j, a.incx, a.n)), Elem("A", b, ad), how)

\* what cell c = <<b, ad>> of y holds after the call
SymvRef(a, c) ==
    LET b == c[1]
        I == { i \in 0..(a.n - 1) : BlasAddr(i, a.incy, a.n) = c[2] }
    IN  IF b < a.batch_count /\ I # {}
        THEN LET i == CHOOSE q \in I : TRUE
             IN  Scale(a.alpha[b], BSum([j \in 0..(a.n - 1) |-> SymvRefTerm(a, b, i, j)]))
                 (+) Scale(a.beta[b], Old("y", c))
        ELSE Old("y", c)

----------------------------------------------------------------------------
(* tbmv: x := op(A) * x, A triangular banded *)

\* largest order of a tbmv call
TbmvMaxN == 4

\* TBMVX_DIM_X and TBMVX_DIM_Y of the launcher, scaled down
TBMVX_DIM_X == 2

TBMVX_DIM_Y == 2

\* the value v times the element e of A, conjugated when cj
ProdV(v, e, cj) ==
    [t \in { <<"mul", u, e, cj>> : u \in DOMAIN v } |-> v[t[2]]]

\* rocblas_tbmvn_kernel_helper: what (ind, col) adds to the partial sum
tbmvn_term(K, m, b, ind, col) ==
    LET row == IF K.is_upper THEN ind + (K.k - col) ELSE ind - col
        w   == m.w[<<b, col>>]
        aw  == ProdV(w, Elem("A", b, row + col * K.lda), FALSE)
    IN  IF ind >= K.n THEN Zero
        ELSE IF row < K.k /\ row > 0 THEN aw
        ELSE IF row = 0
             THEN (IF K.is_unit_diag /\ (~K.is_upper \/ (K.k = 0 /\ K.is_upper)) THEN w ELSE aw)
        ELSE IF row = K.k
             THEN (IF K.is_unit_diag /\ K.is_upper THEN w ELSE aw)
        ELSE Zero

\* rocblas_tbmvt_kernel_helper: what (ind, row) adds to the partial sum
tbmvt_term(K, m, b, ind, row) ==
    LET col     == ind
        min_row == K.k - col
        a       == Elem("A", b, row + col * K.lda)
    IN  IF col >= K.n THEN Zero
        ELSE IF K.is_upper
        THEN IF row < K.k /\ row >= K.k - col /\ row # K.k
             THEN ProdV(m.w[<<b, row - min_row>>], a, K.CONJ)
             ELSE IF row = K.k
                  THEN (IF K.is_unit_diag THEN m.w[<<b, row - min_row>>]
                        ELSE ProdV(m.w[<<b, row - min_row>>], a, K.CONJ))
             ELSE Zero
        ELSE IF row <= K.k /\ row <= K.n - 1 - col /\ row > 0
             THEN ProdV(m.w[<<b, row + col>>], a, K.CONJ)
             ELSE IF row = 0
                  THEN (IF K.is_unit_diag THEN m.w[<<b, row + col>>]
                        ELSE ProdV(m.w[<<b, row + col>>], a, K.CONJ))
             ELSE Zero

\* the rows lane row ty of the transposed helper runs through:
\* for(row = ty; row < lda && row <= k; row += DIM_Y)
tbmvt_rows(K, ty) == gemvn_cols(ty, Min(K.lda, K.k + 1), K.DIM_Y)

\* rocblas_tbmvx_kernel_calc, one block for batch b: the partial sums of the
\* lanes, added up and stored by the lanes of the first row of the block
rocblas_tbmvx_kernel_calc(K, m, b, bx, bz) ==
    LET res_A(tx, ty) ==
            LET ind == bx * K.DIM_X + tx
            IN  IF K.transA = "N"
                THEN BSum([col \in gemvn_cols(ty, K.n, K.DIM_Y) |-> tbmvn_term(K, m, b, ind, col)])
                ELSE BSum([row \in tbmvt_rows(K, ty) |-> tbmvt_term(K, m, b, ind, row)])
    IN  { [loc |-> <<"x", <<b, K.shiftx + (bx * K.DIM_X + t) * K.incx>>>>,
           val |-> BSum([i \in 0..(K.DIM_Y - 1) |-> res_A(t, i)]),
           blk |-> <<bx, 0, bz>>] :
          t \in { q \in 0..(K.DIM_X - 1) : bx * K.DIM_X + q < K.n } }

\* rocblas_tbmvx_kernel, one block
rocblas_tbmvx_kernel(K, m, bx, by, bz) ==
    UNION { rocblas_tbmvx_kernel_calc(K, m, b, bx, bz) : b \in LoopBatches(K, bz) }

\* the copy of x into the workspace: w[i] of batch b is x[i] of batch b
tbmv_copy(K, m) ==
    { [loc |-> <<"w", <<b, i>>>>, val |-> m.x[<<b, BlasAddr(i, K.incx, K.n)>>],
       blk |-> <<0, 0, 0>>] : b \in 0..(K.batch_count - 1), i \in 0..(K.n - 1) }

\* a tbmv launcher with no quick return
tbmv_no_quick_return(a) == FALSE

\* if(!n || !batch_count) return rocblas_status_success;
tbmv_quick_return(a) == a.n = 0 \/ a.batch_count = 0

\* rocblas_internal_tbmv_launcher: the copy of x, then the kernel
rocblas_internal_tbmv_launcher(a) ==
    IF tbmv_quick_return(a) THEN [status |-> "success", ops |-> <<>>]
    ELSE [status |-> "success",
          ops |-> << [op |-> "copy", name |-> "rocblas_internal_copy_template", n |-> a.n,
                      incx |-> a.incx, batch_count |-> a.batch_count],
                     [op |-> "kernel", name |-> "rocblas_tbmvx_kernel",
                      DIM_X |-> TBMVX_DIM_X, DIM_Y |-> TBMVX_DIM_Y, transA |-> a.transA,
                      CONJ |-> a.transA = "C", is_upper |-> a.uplo = "upper",
                      is_unit_diag |-> a.diag = "unit", n |-> a.n, k |-> a.k, lda |-> a.lda,
                      incx |-> a.incx, shiftx |-> dot_shift(a.incx, a.n),
                      batch_count |-> a.batch_count, grid16 |-> a.grid16,
                      gridx |-> (a.n - 1) \div TBMVX_DIM_X + 1, gridy |-> 1,
                      gridz |-> getBatchGridDim(a.grid16, a.batch_count)] >>]

\* the host calls the launcher
TbmvCall ==
    /\ pc = "call"
    /\ args.routine = "tbmv"
    /\ LET r == rocblas_internal_tbmv_launcher(args)
       IN  /\ status' = r.status
           /\ stream' = stream \o r.ops
    /\ pc' = "ret"
    /\ UNCHANGED <<args, mem, loads, done, lanes, shared>>

\* the stream runs the copy or the kernel at its head
TbmvStream ==
    /\ stream # <<>>
    /\ args.routine = "tbmv"
    /\ LET K == Head(stream)
           W == IF K.op = "copy" THEN tbmv_copy(K, mem)
                ELSE UNION { rocblas_tbmvx_kernel(K, mem, bb[1], bb[2], bb[3]) : bb \in Blocks3(K) }
       IN  /\ mem' = ApplyWrites(mem, W)
           /\ done' = Append(done, K)
    /\ stream' = Tail(stream)
    /\ UNCHANGED <<args, loads, status, pc, lanes, shared>>

TbmvXCells == (0..c_YZ_grid_launch_limit) \X (0..(2 * TbmvMaxN - 1))

TbmvWCells == (0..c_YZ_grid_launch_limit) \X (0..(TbmvMaxN - 1))

\* a tbmv call
TbmvInit ==
    /\ \E n \in 0..TbmvMaxN, bc \in L2Batches :
         LET quick == n = 0 \/ bc = 0
         IN  \E k \in (IF quick THEN {0} ELSE 0..SymvMaxK),
                tr \in (IF quick THEN {"N"} ELSE {"N", "T", "C"}),
                uplo \in (IF quick THEN {"upper"} ELSE {"upper", "lower"}),
                diag \in (IF quick THEN {"unit"} ELSE {"unit", "non_unit"}),
                inc \in (IF quick \/ bc > 1 THEN {1} ELSE {1, -1, 2}),
                g16 \in (IF ~quick /\ bc > c_YZ_grid_launch_limit THEN BOOLEAN ELSE {FALSE}) :
               args = [routine |-> "tbmv", n |-> n, k |-> k, batch_count |-> bc, transA |-> tr,
                       uplo |-> uplo, diag |-> diag, incx |-> inc, grid16 |-> g16, lda |-> k + 1]
    /\ mem = [x |-> [c \in TbmvXCells |-> Old("x", c)], w |-> [c \in TbmvWCells |-> Old("w", c)]]
    /\ loads = {}
    /\ stream = <<>>
    /\ done = <<>>
    /\ status = "none"
    /\ pc = "call"
    /\ lanes = <<>>
    /\ shared = <<>>

TbmvNext == TbmvCall \/ TbmvStream

\* what cell c = <<b, ad>> of x holds after x := op(A) * x
TbmvRef(a, c) ==
    LET b == c[1]
        I == { i \in 0..(a.n - 1) : BlasAddr(i, a.incx, a.n) = c[2] }
        entry(i, j) ==
            LET r  == IF a.transA = "N" THEN i ELSE j
                cc == IF a.transA = "N" THEN j ELSE i
                xj == Old("x", <<b, BlasAddr(j, a.incx, a.n)>>)
                in_band == IF a.uplo = "upper" THEN r <= cc /\ cc - r <= a.k
                           ELSE r >= cc /\ r - cc <= a.k
                ad == (IF a.uplo = "upper" THEN a.k + r - cc ELSE r - cc) + cc * a.lda
            IN  IF ~in_band THEN Zero
                ELSE IF r = cc /\ a.diag = "unit" THEN xj
                ELSE ProdV(xj, Elem("A", b, ad), a.transA = "C")
    IN  IF b < a.batch_count /\ I # {}
        THEN LET i == CHOOSE q \in I : TRUE
             IN  BSum([j \in 0..(a.n - 1) |-> entry(i, j)])
        ELSE Old("x", c)

----------------------------------------------------------------------------
(* gemm: the entry rocblas_internal_gemm *)

\* largest m and n, and largest k, of a gemm call
GemmMaxN == 3

GemmMaxK == 1

\* c_i64_grid_YZ_chunk, the number of columns of C one source launch takes,
\* scaled down
c_i64_grid_YZ_chunk == 2

\* the launch of one callee of rocblas_internal_gemm on columns
\* n_base .. n_base + nblock - 1 of C
GemmOp(name, a, n_base, nblock) ==
    [op |-> "kernel", name |-> name, m |-> a.m, n_base |-> n_base, nblock |-> nblock,
     k |-> a.k, alpha |-> a.alpha, beta |-> a.beta, ldc |-> a.ldc,
     batch_count |-> a.batch_count]

\* the column chunks of the source backend:
\* for(n_base = 0; n_base < n; n_base += c_i64_grid_YZ_chunk)
gemm_chunks(a) ==
    [i \in 1..((a.n + c_i64_grid_YZ_chunk - 1) \div c_i64_grid_YZ_chunk) |->
        GemmOp("rocblas_gemm_source_solution_64", a, (i - 1) * c_i64_grid_YZ_chunk,
               Min(a.n - (i - 1) * c_i64_grid_YZ_chunk, c_i64_grid_YZ_chunk))]

\* an entry with no quick return
gemm_no_quick_return(a) == FALSE

\* if(!m || !n || !batch_count) return status;
gemm_quick_return(a) == a.m = 0 \/ a.n = 0 \/ a.batch_count = 0

\* an entry that runs the source path after any backend status but success
gemm_backend_fallback(a) == FALSE

\* #ifdef BUILD_WITH_TENSILE ... if(status != rocblas_status_not_implemented)
\* return status;  ("not_built": the build has no backend)
gemm_backend_returns(a) == a.tensile \notin {"not_built", "not_implemented"}

\* a source path that multiplies whatever k and alpha are
gemm_scale_never(a) == FALSE

\* if(k == 0 || (alpha && *alpha == 0))
gemm_scale_only(a) == a.k = 0 \/ a.alpha = 0

\* the source launches of the loop over the chunks: the call of chunk
\* a.source_fail (0: none) returns an error and the loop ends there
gemm_source(a) ==
    LET ch == gemm_chunks(a)
    IN  IF a.source_fail \in 1..Len(ch)
        THEN [status |-> "internal_error", ops |-> SubSeq(ch, 1, a.source_fail - 1)]
        ELSE [status |-> "success", ops |-> ch]

\* rocblas_internal_gemm: the status it returns, the calls it makes on the
\* host before it returns (the copy of alpha and beta, the backend) and the
\* launches it puts on the stream
rocblas_internal_gemm(a) ==
    LET copies == IF a.pointer_mode = "device"
                  THEN << [op |-> "copy", name |-> "rocblas_copy_alpha_beta_to_host_if_on_device"] >>
                  ELSE <<>>
        calls  == IF a.tensile = "not_built" THEN copies
                  ELSE copies \o << [op |-> "call", name |-> "rocblas_call_tensile",
                                     status |-> a.tensile] >>
    IN  IF gemm_quick_return(a)
        THEN [status |-> "success", copies |-> <<>>, ops |-> <<>>]
        ELSE IF a.copy = "error"
        THEN [status |-> "copy_error", copies |-> copies, ops |-> <<>>]
        ELSE IF a.tensile = "success"
        THEN [status |-> "success", copies |-> calls,
              ops |-> << GemmOp("rocblas_call_tensile", a, 0, a.n) >>]
        ELSE IF gemm_backend_returns(a)
        THEN [status |-> a.tensile, copies |-> calls, ops |-> <<>>]
        ELSE IF gemm_scale_only(a)
        THEN [status |-> "success", copies |-> calls,
              ops |-> << GemmOp("rocblas_gemm_scale_launcher_64", a, 0, a.n) >>]
        ELSE [status |-> gemm_source(a).status, copies |-> calls, ops |-> gemm_source(a).ops]

\* what a launch stores in element (i, n_base + j) of C of batch b: the
\* backend's result, beta * C, or alpha * A * B + beta * C
gemm_value(K, m, b, i, j) ==
    LET c == <<b, i + (K.n_base + j) * K.ldc>>
    IN  IF K.name = "rocblas_call_tensile" THEN Term(<<"new", "C", c>>)
        ELSE IF K.name = "rocblas_gemm_scale_launcher_64" THEN Scale(K.beta, m.C[c])
        ELSE Scale(K.alpha, BSum([l \in 0..(K.k - 1) |->
                                     Prod(b, "A", <<i, l>>, "B", <<l, K.n_base + j>>, FALSE)]))
             (+) Scale(K.beta, m.C[c])

\* the cells of C a launch writes: rows 0 .. m - 1 of its columns, every batch
gemm_writes(K, m) ==
    { [loc |-> <<"C", <<b, i + (K.n_base + j) * K.ldc>>>>,
       val |-> gemm_value(K, m, b, i, j),
       blk |-> <<0, 0, 0>>] :
      b \in 0..(K.batch_count - 1), i \in 0..(K.m - 1), j \in 0..(K.nblock - 1) }

\* the elements of A and B a launch loads
gemm_loads(K) ==
    IF K.name # "rocblas_gemm_source_solution_64" THEN {}
    ELSE UNION { { Elem("A", b, <<i, l>>) : i \in 0..(K.m - 1) }
                 \cup { Elem("B", b, <<l, K.n_base + j>>) : j \in 0..(K.nblock - 1) } :
                 b \in 0..(K.batch_count - 1), l \in 0..(K.k - 1) }

\* the host calls the entry
GemmCall ==
    /\ pc = "call"
    /\ args.routine = "gemm"
    /\ LET r == rocblas_internal_gemm(args)
       IN  /\ status' = r.status
           /\ done' = done \o r.copies
           /\ stream' = stream \o r.ops
    /\ pc' = "ret"
    /\ UNCHANGED <<args, mem, loads, lanes, shared>>

\* the stream runs the launch at its head
GemmStream ==
    /\ stream # <<>>
    /\ args.routine = "gemm"
    /\ mem' = ApplyWrites(mem, gemm_writes(Head(stream), mem))
    /\ loads' = loads \cup gemm_loads(Head(stream))
    /\ done' = Append(done, Head(stream))
    /\ stream' = Tail(stream)
    /\ UNCHANGED <<args, status, pc, lanes, shared>>

GemmCells == (0..1) \X (0..((GemmMaxN + 1) * GemmMaxN - 1))

\* a gemm call: the dimensions, the scalars, the pointer mode, the build and
\* what the callees return
GemmInit ==
    /\ \E m \in 0..GemmMaxN, n \in 0..GemmMaxN, bc \in 0..2 :
         LET quick == m = 0 \/ n = 0 \/ bc = 0
         IN  \E k \in 0..GemmMaxK, pm \in {"host", "device"},
                al \in (IF quick THEN {2} ELSE {0, 2}),
                be \in (IF quick THEN {1} ELSE {0, 1, 2}),
                tensile \in {"not_built", "success", "not_implemented", "internal_error"} :
               \E cp \in (IF ~quick /\ pm = "device" THEN {"ok", "error"} ELSE {"ok"}),
                  sf \in (IF ~quick /\ k > 0 /\ al # 0
                              /\ tensile \in {"not_built", "not_implemented"}
                           THEN 0..2 ELSE {0}) :
                 args = [routine |-> "gemm", m |-> m, n |-> n, k |-> k, batch_count |-> bc,
                         pointer_mode |-> pm, alpha |-> al, beta |-> be, tensile |-> tensile,
                         copy |-> cp, source_fail |-> sf, ldc |-> m + 1]
    /\ mem = [C |-> [c \in GemmCells |-> Old("C", c)]]
    /\ loads = {}
    /\ stream = <<>>
    /\ done = <<>>
    /\ status = "none"
    /\ pc = "call"
    /\ lanes = <<>>
    /\ shared = <<>>

GemmNext == GemmCall \/ GemmStream

----------------------------------------------------------------------------
(* The launchers together *)

LauncherInit == GerInit \/ Syr2Init \/ SymvInit \/ TbmvInit \/ GemmInit

LauncherNext == GerNext \/ Syr2Next \/ SymvNext \/ TbmvNext \/ GemmNext

SpecLaunchers == LauncherInit /\ [][LauncherNext]_vars

\* the call has a zero dimension or no batch
ZeroSized ==
    \/ args.batch_count = 0
    \/ args.n = 0
    \/ args.routine \in {"ger", "gemm"} /\ args.m = 0

\* C8: a launcher of ger, gemm, hbmv, hpmv, sbmv, syr2 or tbmv called with a
\* zero dimension or batch_count == 0 returns success, and nothing is ever
\* launched or copied and no output cell changes
C8_ZeroSizedReturn ==
    ZeroSized
        => /\ pc = "ret" => status = "success"
           /\ stream = <<>>
           /\ done = <<>>
           /\ loads = {}
           /\ \A arr \in DOMAIN mem : \A c \in DOMAIN mem[arr] : mem[arr][c] = Old(arr, c)

\* calls of tbmv and of gemm with a zero dimension that have returned
C8_Witness ==
    /\ pc = "ret"
    /\ ZeroSized
    /\ args.routine \in {"tbmv", "gemm"}
    /\ args.batch_count > 0

----------------------------------------------------------------------------
(* The matrix-vector routines together *)

MatVecInit == GemvInit \/ SymvInit

MatVecNext == GemvNext \/ SymvNext

SpecMatVec == MatVecInit /\ [][MatVecNext]_vars

\* C5: in gemv, hbmv, hpmv and sbmv a batch element with alpha == 0 and
\* beta == 1 keeps every element of its y and nothing of its A or x is ever
\* loaded, with one (alpha, beta) per batch and with batch_count > 1 in host
\* pointer mode as well
C5_NoOp ==
    \A b \in 0..c_YZ_grid_launch_limit :
        (b < args.batch_count /\ args.alpha[b] = 0 /\ args.beta[b] = 1)
            => /\ \A c \in GemvYCells : c[1] = b => mem.y[c] = Old("y", c)
               /\ \A e \in loads : e[2] = b => e[1] \notin {"A", "x"}

\* sbmv in host pointer mode with batch_count > 1, alpha == 0 and beta == 1:
\* the launcher has launched the kernel and the kernel has run
C5_Witness ==
    /\ pc = "ret"
    /\ Len(done) = 1
    /\ args.routine = "sbmv"
    /\ args.pointer_mode = "host"
    /\ args.batch_count > 1
    /\ args.alpha[0] = 0
    /\ args.beta[0] = 1

----------------------------------------------------------------------------
(* Every kernel: which blocks write which cells *)

KernelInit == GemvInit \/ SymvInit \/ TbmvInit \/ GerInit \/ Syr2Init \/ DotInit

KernelNext == GemvNext \/ SymvNext \/ TbmvNext \/ GerNext \/ Syr2Next \/ DotNext

SpecKernels == KernelInit /\ [][KernelNext]_vars

\* the writes and atomic adds of the launch K, each with the cell and the block
LaunchWrites(K) ==
    CASE args.routine = "dot" -> dot_op_writes(K, mem)
      [] args.routine = "ger" -> UNION { ger_block(K, bb).adds : bb \in Blocks3(K) }
      [] args.routine = "syr2" ->
             UNION { rocblas_syr2_kernel(K, bb[1], bb[2], bb[3]).adds : bb \in Blocks3(K) }
      [] args.routine = "gemv" -> gemv_kernel_writes(K, mem)
      [] args.routine = "tbmv" ->
             IF K.op = "copy" THEN {}
             ELSE UNION { rocblas_tbmvx_kernel(K, mem, bb[1], bb[2], bb[3]) : bb \in Blocks3(K) }
      [] OTHER -> UNION { symv_kernel(K, mem, bb[1], bb[2], bb[3]) : bb \in Blocks3(K) }

\* two blocks of the launch K write the same cell
SharedCell(K) ==
    LET W == LaunchWrites(K)
    IN  \E w1 \in W : \E w2 \in W : w1.loc = w2.loc /\ w1.blk # w2.blk

\* the launch that ran last
LastLaunch == done[Len(done)]

\* C10 as stated: only in the double-buffered gemvn kernel do two blocks of
\* one launch write the same cell
C10_OnlyGemvnAtomic ==
    (done # <<>> /\ SharedCell(LastLaunch))
        => LastLaunch.name = "rocblas_gemvn_double_buffered_kernel"

\* C10: only in the double-buffered gemvn and gemvt kernels, which add into y
\* atomically, do two blocks of one launch write the same cell; in every
\* other kernel a cell is written by the lanes of one block
C10_OnlyAtomicKernels ==
    (done # <<>> /\ SharedCell(LastLaunch))
        => /\ LastLaunch.name \in {"rocblas_gemvn_double_buffered_kernel",
                                   "rocblas_gemvt_double_buffered_kernel"}
           /\ \A w \in LaunchWrites(LastLaunch) : w.add

\* the double-buffered gemvn kernel has run and two of its blocks have added
\* into the same y[i]
C10_Witness ==
    /\ done # <<>>
    /\ args.routine = "gemv"
    /\ LastLaunch.name = "rocblas_gemvn_double_buffered_kernel"
    /\ SharedCell(LastLaunch)

----------------------------------------------------------------------------
(* Lanes of one block, run one at a time *)

\* every lane at the start of its kernel
LanesInit(L) == [l \in L |-> [k |-> 1, ph |-> "top", nbar |-> 0]]

\* __syncthreads(): a lane that has arrived at its nbar-th barrier goes on
\* once every lane of the block that has not left the kernel has arrived at
\* that barrier too
BarrierOpen(l) ==
    \A o \in DOMAIN lanes : lanes[o].ph = "done" \/ lanes[o].nbar >= lanes[l].nbar

\* all lanes have left the kernel
LanesDone == \A l \in DOMAIN lanes : lanes[l].ph = "done"

----------------------------------------------------------------------------
(* rocblas_ger_kernel, lane by lane *)

\* the kernel launch of the call and the block that is run
GerLK == ger_launch(args)

\* the batches of the block
GerLBatches == BatchLoop(args.grid16, args.bz, args.batch_count)

\* blkx, blky, tx, ty and tyi of lane l
ger_blkx == args.bx % ((args.m - 1) \div ger_DIM_X + 1)

ger_blky == args.bx \div ((args.m - 1) \div ger_DIM_X + 1)

ger_tx(l) == ger_blkx * ger_DIM_X + l[1]

ger_ty(l) == (ger_blky * ger_DIM_Y + l[2]) * ger_WIN

ger_tyi(l) == l[2] * ger_WIN

\* top of the batch loop up to __syncthreads(): the lane leaves the loop, or
\* skips a batch whose alpha is zero, or stages its entries of xdata and ydata
GerLaneStage(l) ==
    /\ lanes[l].ph = "top"
    /\ IF lanes[l].k > Len(GerLBatches)
       THEN /\ lanes' = [lanes EXCEPT ![l].ph = "done"]
            /\ UNCHANGED <<shared, loads>>
       ELSE LET b == GerLBatches[lanes[l].k]
                K == GerLK
                ex == IF ger_tx(l) < K.m
                      THEN Elem("x", b, K.shiftx + ger_tx(l) * K.incx) ELSE ZeroE
                ey == IF ger_ty(l) + l[1] < K.n
                      THEN Elem("y", b, K.shifty + (ger_ty(l) + l[1]) * K.incy) ELSE ZeroE
                xd == IF l[2] = 0 THEN [shared.xdata EXCEPT ![l[1]] = ex] ELSE shared.xdata
                yd == IF l[1] < ger_WIN
                      THEN [shared.ydata EXCEPT ![ger_tyi(l) + l[1]] = ey] ELSE shared.ydata
            IN  IF K.alpha[b] = 0
                THEN /\ lanes' = [lanes EXCEPT ![l].k = IF args.grid16 THEN @ + 1 ELSE Len(GerLBatches) + 1]
                     /\ UNCHANGED <<shared, loads>>
                ELSE /\ shared' = [xdata |-> xd, ydata |-> yd]
                     /\ loads' = loads \cup (((IF l[2] = 0 THEN {ex} ELSE {})
                                              \cup (IF l[1] < ger_WIN THEN {ey} ELSE {})) \ {ZeroE})
                     /\ lanes' = [lanes EXCEPT ![l].ph = "sync", ![l].nbar = @ + 1]
    /\ UNCHANGED <<args, mem, stream, done, status, pc>>

\* from __syncthreads() to the end of the loop body: the lane updates its
\* elements of A from xdata and ydata
GerLaneUpdate(l) ==
    /\ lanes[l].ph = "sync"
    /\ BarrierOpen(l)
    /\ LET b == GerLBatches[lanes[l].k]
           K == GerLK
           W == IF ger_tx(l) < K.m
                THEN { [loc |-> <<"A", <<b, ger_tx(l) + K.lda * (ger_ty(l) + i)>>>>,
                        val |-> Scale(K.alpha[b], ProdS(shared.xdata[l[1]],
                                                       shared.ydata[ger_tyi(l) + i], K.CONJ)),
                        blk |-> <<args.bx, 0, args.bz>>, lane |-> l] :
                       i \in {j \in 0..(ger_WIN - 1) : ger_ty(l) + j < K.n} }
                ELSE {}
       IN  /\ mem' = ApplyAdds(mem, W)
           /\ loads' = loads \cup AElems(W)
    /\ lanes' = [lanes EXCEPT ![l].ph = "top", ![l].k = @ + 1]
    /\ UNCHANGED <<args, shared, stream, done, status, pc>>

\* one block of rocblas_ger_kernel of a ger call that takes the general branch
GerLanesInit ==
    /\ \E m \in 1..3, n \in 1..3, bc \in 1..(c_YZ_grid_launch_limit + 1), g16 \in BOOLEAN :
         \E al \in [0..(bc - 1) -> {0, 2}] :
           LET a == [routine |-> "ger", m |-> m, n |-> n, batch_count |-> bc,
                     pointer_mode |-> "device", T |-> "double", incx |-> 1, incy |-> 1,
                     alpha |-> al, CONJ |-> FALSE, arch |-> 900, grid16 |-> g16, lda |-> m + 1]
               K == ger_launch(a)
           IN  \E bx \in 0..(K.gridx - 1), bz \in 0..(K.gridz - 1) :
                 args = [a EXCEPT !.routine = "ger_lanes"] @@ [bx |-> bx, bz |-> bz]
    /\ mem = GerMem0
    /\ loads = {}
    /\ stream = <<>>
    /\ done = <<>>
    /\ status = "none"
    /\ pc = "kernel"
    /\ lanes = LanesInit(Lanes(ger_DIM_X, ger_DIM_Y))
    /\ shared = [xdata |-> [i \in 0..(ger_DIM_X - 1) |-> Undef],
                 ydata |-> [i \in 0..(ger_DIM_Y * ger_WIN - 1) |-> Undef]]

GerLanesNext == \E l \in DOMAIN lanes : GerLaneStage(l) \/ GerLaneUpdate(l)

SpecGerLanes == GerLanesInit /\ [][GerLanesNext]_vars

\* what the block must leave in cell c of A: the update of GerRef for the
\* batches and the tile of the block, the old value elsewhere
GerLanesRef(c) ==
    LET i == c[2] % args.lda
        j == c[2] \div args.lda
    IN  IF /\ \E k \in 1..Len(GerLBatches) : GerLBatches[k] = c[1]
           /\ i \div ger_DIM_X = ger_blkx
           /\ j \div (ger_DIM_Y * ger_WIN) = ger_blky
        THEN GerRef(args, c)
        ELSE Old("A", c)

\* C3: after ger with alpha # 0, every A[i, j] with i < m and j < n is its old
\* value plus alpha * x[i] * y[j], each such element updated exactly once, and
\* no element outside the m-by-n block is modified: when the block of
\* rocblas_ger_kernel has run, every cell of a batch whose alpha is not zero
\* holds the reference value
C3_GerUpdate ==
    LanesDone => \A c \in GerCells :
                   (c[1] < args.batch_count /\ args.alpha[c[1]] # 0)
                       => mem.A[c] = GerLanesRef(c)

----------------------------------------------------------------------------
(* rocblas_gemvn_sm_mn_batched_kernel and rocblas_dot_batched_4_kernel, lane
   by lane: the rows of a block handle different batches *)

\* the batch of lane l: blockIdx.x * blockDim.y + threadIdx.y
BarLaneBatch(l) ==
    args.bx * (IF args.routine = "sm_mn_lanes" THEN sm_mn_NB_BATCH ELSE NB_Y) + l[2]

\* rocblas_gemvn_sm_mn_batched_kernel up to __syncthreads(): the lane
\* returns when it has no batch or its batch is a no-op, scales y and returns
\* when alpha is zero, and stages alpha * x[tx] otherwise
SmMnLaneTop(l) ==
    /\ args.routine = "sm_mn_lanes"
    /\ lanes[l].ph = "top"
    /\ LET b  == BarLaneBatch(l)
           tx == l[1]
       IN  IF b >= args.batch_count \/ (args.alpha[b] = 0 /\ args.beta[b] = 1)
           THEN /\ lanes' = [lanes EXCEPT ![l].ph = "done"]
                /\ UNCHANGED <<mem, loads, shared>>
           ELSE IF args.alpha[b] = 0
           THEN /\ lanes' = [lanes EXCEPT ![l].ph = "done"]
                /\ mem' = IF tx < args.m
                          THEN [mem EXCEPT !.y[<<b, tx>>] = Scale(args.beta[b], @)]
                          ELSE mem
                /\ loads' = loads \cup (IF tx < args.m /\ args.beta[b] # 0
                                        THEN {Elem("y", b, tx)} ELSE {})
                /\ UNCHANGED shared
           ELSE /\ lanes' = [lanes EXCEPT ![l].ph = "sync", ![l].nbar = @ + 1]
                /\ shared' = IF tx < args.n
                             THEN [shared EXCEPT !.sx[l[2] * sm_mn_NB_X + tx] = Elem("x", b, tx)]
                             ELSE shared
                /\ loads' = loads \cup (IF tx < args.n THEN {Elem("x", b, tx)} ELSE {})
                /\ UNCHANGED mem
    /\ UNCHANGED <<args, stream, done, status, pc>>

\* rocblas_gemv_sm_mn_batched_kernel_calc after __syncthreads(): row tx of y
SmMnLaneFinish(l) ==
    /\ args.routine = "sm_mn_lanes"
    /\ lanes[l].ph = "sync"
    /\ BarrierOpen(l)
    /\ LET b   == BarLaneBatch(l)
           tx  == l[1]
           res == BSum([j \in 0..(args.n - 1) |->
                          ProdS(shared.sx[l[2] * sm_mn_NB_X + j],
                                Elem("A", b, j * args.lda + tx), FALSE)])
       IN  /\ mem' = IF tx < args.m
                     THEN [mem EXCEPT !.y[<<b, tx>>] =
                               Scale(args.alpha[b], res) (+) Scale(args.beta[b], @)]
                     ELSE mem
           /\ loads' = loads \cup (IF tx < args.m
                                   THEN { Elem("A", b, j * args.lda + tx) : j \in 0..(args.n - 1) }
                                   ELSE {})
    /\ lanes' = [lanes EXCEPT ![l].ph = "done"]
    /\ UNCHANGED <<args, shared, stream, done, status, pc>>

\* rocblas_dot_batched_4_kernel up to __syncthreads(), the wavefront of row
\* l[2] of the block as one lane: it returns when it has no batch and adds up
\* its elements otherwise
Dot4LaneTop(l) ==
    /\ args.routine = "batched_4_lanes"
    /\ lanes[l].ph = "top"
    /\ IF BarLaneBatch(l) >= args.batch_count
       THEN lanes' = [lanes EXCEPT ![l].ph = "done"]
       ELSE lanes' = [lanes EXCEPT ![l].ph = "sync", ![l].nbar = @ + 1,
                                   ![l].sum = [tx \in 0..(args.NB - 1) |->
                                                 batched_4_lane_sum(args, BarLaneBatch(l), tx)]]
    /\ UNCHANGED <<args, mem, loads, shared, stream, done, status, pc>>

\* rocblas_dot_batched_4_kernel after __syncthreads(): the sum over the
\* wavefront, stored by its lane 0
Dot4LaneFinish(l) ==
    /\ args.routine = "batched_4_lanes"
    /\ lanes[l].ph = "sync"
    /\ BarrierOpen(l)
    /\ mem' = [mem EXCEPT !.out[BarLaneBatch(l)] = BSum(lanes[l].sum)]
    /\ lanes' = [lanes EXCEPT ![l].ph = "done"]
    /\ UNCHANGED <<args, loads, shared, stream, done, status, pc>>

\* the (alpha, beta) of the batches of a rocblas_gemvn_sm_mn_batched_kernel launch
BarCoeffs(bc) == [0..(bc - 1) -> {<<0, 1>>, <<0, 2>>, <<2, 1>>}]

\* largest batch_count of a lane-by-lane run
BarMaxBatch == 5

\* one block of rocblas_gemvn_sm_mn_batched_kernel or of
\* rocblas_dot_batched_4_kernel
BarLanesInit ==
    /\ \/ \E m \in 1..sm_mn_NB_X, n \in 1..sm_mn_NB_X, bc \in 1..(sm_mn_NB_BATCH + 1) :
            \E f \in BarCoeffs(bc), bx \in 0..((bc - 1) \div sm_mn_NB_BATCH) :
               /\ args = [routine |-> "sm_mn_lanes", m |-> m, n |-> n, batch_count |-> bc,
                          alpha |-> [b \in 0..(bc - 1) |-> f[b][1]],
                          beta |-> [b \in 0..(bc - 1) |-> f[b][2]], lda |-> m + 1, bx |-> bx]
               /\ lanes = LanesInit(Lanes(sm_mn_NB_X, sm_mn_NB_BATCH))
               /\ mem = [y |-> [c \in (0..sm_mn_NB_BATCH) \X (0..(sm_mn_NB_X - 1)) |-> Old("y", c)]]
               /\ shared = [sx |-> [i \in 0..(sm_mn_NB_X * sm_mn_NB_BATCH - 1) |-> Undef]]
       \/ \E n \in 0..dot_small_n, bc \in dot_high_batch..BarMaxBatch, cj \in BOOLEAN,
             warp \in {WARP_32, WARP_64} :
            \E bx \in 0..((bc - 1) \div NB_Y) :
               /\ args = [routine |-> "batched_4_lanes", n |-> n, batch_count |-> bc, NB |-> warp,
                          yop |-> "y", shiftx |-> 0, shifty |-> 0, incx |-> 1, incy |-> 1,
                          CONJ |-> cj, bx |-> bx]
               /\ lanes = [l \in Lanes(1, NB_Y) |-> [k |-> 1, ph |-> "top", nbar |-> 0,
                                                     sum |-> <<>>]]
               /\ mem = [out |-> [b \in 0..(BarMaxBatch - 1) |-> Old("out", b)]]
               /\ shared = <<>>
    /\ loads = {}
    /\ stream = <<>>
    /\ done = <<>>
    /\ status = "none"
    /\ pc = "kernel"

BarLanesNext ==
    \E l \in DOMAIN lanes :
        SmMnLaneTop(l) \/ SmMnLaneFinish(l) \/ Dot4LaneTop(l) \/ Dot4LaneFinish(l)

SpecBarLanes == BarLanesInit /\ [][BarLanesNext]_vars

\* C9: each barrier reached by some lane of a block is reached by all lanes
\* of the block: no lane has left the kernel before a barrier that another
\* lane of the block has reached
C9_BarrierReachedByAll ==
    \A l \in DOMAIN lanes : \A o \in DOMAIN lanes :
        lanes[o].ph = "done" => lanes[o].nbar >= lanes[l].nbar

----------------------------------------------------------------------------
(* rocblas_gemvn_kernel, lane by lane *)

\* the kernel launch of the call and the batches of the block that is run
GemvnLK == gemv_launch(args)[1]

GemvnLBatches == BatchLoop(args.grid16, args.bz, args.batch_count)

\* thread_id of lane l
gemvn_thread_id(l) == l[1] + l[2] * gemvn_DIM_X

\* top of the batch loop up to __syncthreads(): the lane leaves the loop,
\* skips a no-op batch, scales y for a batch whose alpha is zero, or adds up
\* its columns and stores res_A[0 .. 3] in sdata
GemvnLaneStage(l) ==
    /\ args.routine = "gemvn_lanes"
    /\ lanes[l].ph = "top"
    /\ LET K == GemvnLK
           k == lanes[l].k
       IN  IF k > Len(GemvnLBatches)
           THEN /\ lanes' = [lanes EXCEPT ![l].ph = "done"]
                /\ UNCHANGED <<mem, loads, shared>>
           ELSE LET b   == GemvnLBatches[k]
                    ind == args.bx * K.DIM_X * 4 + gemvn_thread_id(l)
                    row(j) == args.bx * K.DIM_X * 4 + l[1] + j * K.DIM_X
                IN  IF gemv_noop(K, b)
                    THEN /\ lanes' = [lanes EXCEPT ![l].k = @ + 1]
                         /\ UNCHANGED <<mem, loads, shared>>
                    ELSE IF K.alpha[b] = 0
                    THEN /\ lanes' = [lanes EXCEPT ![l].k = @ + 1]
                         /\ mem' = IF gemvn_thread_id(l) < K.DIM_X * 4 /\ ind < K.m
                                   THEN [mem EXCEPT !.y[<<b, K.shifty + ind * K.incy>>] =
                                             Scale(K.beta[b], @)]
                                   ELSE mem
                         /\ loads' = loads \cup
                               (IF gemvn_thread_id(l) < K.DIM_X * 4 /\ ind < K.m /\ K.beta[b] # 0
                                THEN {Elem("y", b, K.shifty + ind * K.incy)} ELSE {})
                         /\ UNCHANGED shared
                    ELSE /\ lanes' = [lanes EXCEPT ![l].ph = "sync", ![l].nbar = @ + 1]
                         /\ shared' =
                              [shared EXCEPT !.sdata =
                                 [i \in DOMAIN shared.sdata |->
                                    IF \E j \in 0..3 : i = l[1] + j * K.DIM_X + l[2] * K.DIM_X * 4
                                    THEN LET j == CHOOSE q \in 0..3 :
                                                     i = l[1] + q * K.DIM_X + l[2] * K.DIM_X * 4
                                         IN  IF row(j) < K.m THEN gemvn_res_A(K, b, row(j), l[2])
                                             ELSE Zero
                                    ELSE shared.sdata[i]]]
                         /\ loads' = loads \cup
                               UNION { LoadsOf(gemvn_res_A(K, b, row(j), l[2])) :
                                       j \in {q \in 0..3 : row(q) < K.m} }
                         /\ UNCHANGED mem
    /\ UNCHANGED <<args, stream, done, status, pc>>

\* after __syncthreads(): a lane with thread_id < DIM_X * 4 adds the partial
\* sums of its row from sdata and stores y; every lane goes on to its next
\* batch
GemvnLaneReduce(l) ==
    /\ args.routine = "gemvn_lanes"
    /\ lanes[l].ph = "sync"
    /\ BarrierOpen(l)
    /\ LET K   == GemvnLK
           b   == GemvnLBatches[lanes[l].k]
           t   == gemvn_thread_id(l)
           ind == args.bx * K.DIM_X * 4 + t
           c   == <<b, K.shifty + ind * K.incy>>
           sum == BSum([i \in 0..(K.DIM_Y - 1) |-> shared.sdata[t + K.DIM_X * 4 * i]])
       IN  IF t < K.DIM_X * 4
           THEN /\ shared' = [shared EXCEPT !.sdata[t] = sum]
                /\ mem' = IF ind < K.m
                          THEN [mem EXCEPT !.y[c] = Scale(K.alpha[b], sum)
                                                    (+) Scale(K.beta[b], @)]
                          ELSE mem
                /\ loads' = loads \cup (IF ind < K.m /\ K.beta[b] # 0
                                        THEN {Elem("y", b, c[2])} ELSE {})
           ELSE UNCHANGED <<shared, mem, loads>>
    /\ lanes' = [lanes EXCEPT ![l].ph = "top", ![l].k = @ + 1]
    /\ UNCHANGED <<args, stream, done, status, pc>>

\* one block of rocblas_gemvn_kernel of a gemv call
GemvnLanesInit ==
    /\ \E m \in {1, 4 * gemvn_DIM_X, 4 * gemvn_DIM_X + 1}, n \in {1, gemvn_DIM_Y + 1},
          bc \in {1, c_YZ_grid_launch_limit + 1} :
         \E g16 \in (IF bc > c_YZ_grid_launch_limit THEN BOOLEAN ELSE {FALSE}) :
           \E bx \in 0..((m - 1) \div (gemvn_DIM_X * 4)),
              bz \in 0..(getBatchGridDim(g16, bc) - 1) :
             \E f \in { g \in [0..(bc - 1) -> {<<0, 1>>, <<2, 0>>, <<1, 2>>}] :
                           \A b \in 0..(bc - 1) :
                               (\A k \in 1..Len(BatchLoop(g16, bz, bc)) :
                                    BatchLoop(g16, bz, bc)[k] # b) => g[b] = <<2, 0>> } :
               args = [routine |-> "gemvn_lanes", path |-> "gemvn", trans |-> "N", T |-> "float",
                       arch |-> 900, m |-> m, n |-> n, gridy |-> 1, batch_count |-> bc,
                       pointer_mode |-> "device", incx |-> 1, incy |-> 1,
                       alpha |-> [b \in 0..(bc - 1) |-> f[b][1]],
                       beta |-> [b \in 0..(bc - 1) |-> f[b][2]], grid16 |-> g16, lda |-> m + 1,
                       bx |-> bx, bz |-> bz]
    /\ mem = [y |-> [c \in GemvYCells |-> Old("y", c)]]
    /\ loads = {}
    /\ stream = <<>>
    /\ done = <<>>
    /\ status = "none"
    /\ pc = "kernel"
    /\ lanes = LanesInit(Lanes(gemvn_DIM_X, gemvn_DIM_Y))
    /\ shared = [sdata |-> [i \in 0..(gemvn_DIM_X * 4 * gemvn_DIM_Y - 1) |-> Old("sdata", i)]]

GemvnLanesNext == \E l \in DOMAIN lanes : GemvnLaneStage(l) \/ GemvnLaneReduce(l)

SpecGemvnLanes == GemvnLanesInit /\ [][GemvnLanesNext]_vars

\* what the block must leave in cell c of y: the value of GemvRef for the
\* rows and the batches of the block, the old value elsewhere
GemvnLanesRef(c) ==
    IF /\ \E k \in 1..Len(GemvnLBatches) : GemvnLBatches[k] = c[1]
       /\ c[2] \div (gemvn_DIM_X * 4) = args.bx
    THEN GemvRef(args, c)
    ELSE Old("y", c)

\* C2: for m >= 1, n >= 1 and alpha # 0 every gemv path leaves each y[i] equal
\* to alpha * (the sum over the reduced index of op(A) times x, each pair
\* once) + beta * y_old[i], y_old not read when beta == 0: when the block of
\* rocblas_gemvn_kernel has run, every cell of a batch whose alpha is not zero
\* holds that value, and no y of a batch whose beta is zero was loaded
C2_GemvResult ==
    LanesDone => \A c \in GemvYCells :
                   (c[1] < args.batch_count /\ args.alpha[c[1]] # 0)
                       => /\ mem.y[c] = GemvnLanesRef(c)
                          /\ args.beta[c[1]] = 0 => Elem("y", c[1], c[2]) \notin loads

----------------------------------------------------------------------------
(* rocblas_tbmvx_kernel, lane by lane *)

\* the kernel launch of the call
TbmvLK == rocblas_internal_tbmv_launcher(args).ops[2]

\* the batches of the block
TbmvLBatches == BatchLoop(args.grid16, args.bz, args.batch_count)

\* res_A of lane <<tx, ty>> of block bx for batch b, as the helpers return it
tbmvx_res_A(K, m, b, bx, tx, ty) ==
    LET ind == bx * K.DIM_X + tx
    IN  IF K.transA = "N"
        THEN BSum([col \in gemvn_cols(ty, K.n, K.DIM_Y) |-> tbmvn_term(K, m, b, ind, col)])
        ELSE BSum([row \in tbmvt_rows(K, ty) |-> tbmvt_term(K, m, b, ind, row)])

\* top of the batch loop up to __syncthreads(): the lane leaves the loop, or
\* computes its partial sum and stores it to sdata[tx + ty * DIM_X]
TbmvLaneStage(l) ==
    /\ lanes[l].ph = "top"
    /\ IF lanes[l].k > Len(TbmvLBatches)
       THEN /\ lanes' = [lanes EXCEPT ![l].ph = "done"]
            /\ UNCHANGED shared
       ELSE LET b == TbmvLBatches[lanes[l].k]
                K == TbmvLK
            IN  /\ shared' = [shared EXCEPT !.sdata[l[1] + l[2] * K.DIM_X] =
                                              tbmvx_res_A(K, mem, b, args.bx, l[1], l[2])]
                /\ lanes' = [lanes EXCEPT ![l].ph = "sync", ![l].nbar = @ + 1]
    /\ UNCHANGED <<args, mem, loads, stream, done, status, pc>>

\* from __syncthreads() to the end of the loop body: a lane of the first row
\* adds up the partial sums of its diagonal in sdata and stores x
TbmvLaneReduce(l) ==
    /\ lanes[l].ph = "sync"
    /\ BarrierOpen(l)
    /\ LET b == TbmvLBatches[lanes[l].k]
           K == TbmvLK
           thread_id == l[1] + l[2] * K.DIM_X
           ind == args.bx * K.DIM_X + thread_id
           sum == BSum([i \in 0..(K.DIM_Y - 1) |-> shared.sdata[thread_id + K.DIM_X * i]])
       IN  IF thread_id < K.DIM_X /\ ind < K.n
           THEN /\ shared' = [shared EXCEPT !.sdata[thread_id] = sum]
                /\ mem' = [mem EXCEPT !.x[<<b, K.shiftx + ind * K.incx>>] = sum]
           ELSE UNCHANGED <<shared, mem>>
    /\ lanes' = [lanes EXCEPT ![l].ph = "top", ![l].k = @ + 1]
    /\ UNCHANGED <<args, loads, stream, done, status, pc>>

\* one block of rocblas_tbmvx_kernel, the copy of x made
TbmvLanesInit ==
    /\ \E n \in 1..TbmvMaxN, k \in 0..SymvMaxK, bc \in 1..(c_YZ_grid_launch_limit + 1),
          tr \in {"N", "T", "C"}, uplo \in {"upper", "lower"}, diag \in {"unit", "non_unit"},
          g16 \in BOOLEAN :
         LET a == [routine |-> "tbmv", n |-> n, k |-> k, batch_count |-> bc, transA |-> tr,
                   uplo |-> uplo, diag |-> diag, incx |-> 1, grid16 |-> g16, lda |-> k + 1]
             r == rocblas_internal_tbmv_launcher(a)
             m0 == [x |-> [c \in TbmvXCells |-> Old("x", c)],
                    w |-> [c \in TbmvWCells |-> Old("w", c)]]
         IN  /\ \E bx \in 0..(r.ops[2].gridx - 1), bz \in 0..(r.ops[2].gridz - 1) :
                   args = [a EXCEPT !.routine = "tbmv_lanes"] @@ [bx |-> bx, bz |-> bz]
             /\ mem = ApplyWrites(m0, tbmv_copy(r.ops[1], m0))
    /\ loads = {}
    /\ stream = <<>>
    /\ done = <<>>
    /\ status = "none"
    /\ pc = "kernel"
    /\ lanes = LanesInit(Lanes(TBMVX_DIM_X, TBMVX_DIM_Y))
    /\ shared = [sdata |-> [i \in 0..(TBMVX_DIM_X * TBMVX_DIM_Y - 1) |-> Undef]]

TbmvLanesNext == \E l \in DOMAIN lanes : TbmvLaneStage(l) \/ TbmvLaneReduce(l)

----------------------------------------------------------------------------
(* Shared scratch in the batch loop: rocblas_ger_kernel and
   rocblas_tbmvx_kernel *)

ScratchInit == GerLanesInit \/ TbmvLanesInit

ScratchNext ==
    \/ args.routine = "ger_lanes" /\ GerLanesNext
    \/ args.routine = "tbmv_lanes" /\ TbmvLanesNext

SpecScratch == ScratchInit /\ [][ScratchNext]_vars

\* lane l is past __syncthreads() and about to read shared scratch
ScratchReader(l) == lanes[l].ph = "sync" /\ BarrierOpen(l)

\* what lane l of rocblas_ger_kernel reads from xdata and ydata is what was
\* staged for batch b
GerScratchOfBatch(l, b) ==
    LET K == GerLK
    IN  ger_tx(l) < K.m =>
          /\ shared.xdata[l[1]] = Elem("x", b, K.shiftx + ger_tx(l) * K.incx)
          /\ \A i \in 0..(ger_WIN - 1) :
                ger_ty(l) + i < K.n =>
                    shared.ydata[ger_tyi(l) + i] = Elem("y", b, K.shifty + (ger_ty(l) + i) * K.incy)

\* what lane l of rocblas_tbmvx_kernel reads from sdata is the partial sums
\* of batch b
TbmvScratchOfBatch(l, b) ==
    LET K == TbmvLK
        thread_id == l[1] + l[2] * K.DIM_X
    IN  (thread_id < K.DIM_X /\ args.bx * K.DIM_X + thread_id < K.n) =>
          \A i \in 0..(K.DIM_Y - 1) :
              shared.sdata[thread_id + K.DIM_X * i] = tbmvx_res_A(K, mem, b, args.bx, l[1], i)

\* C27: in rocblas_ger_kernel and rocblas_tbmvx_kernel, whose blocks handle
\* several batches in the batch loop, no lane overwrites an entry of shared
\* scratch for the next batch while another lane of the block has yet to read
\* it: whenever a lane is about to read shared scratch, the entries it reads
\* hold the values written for the batch the lane is processing
C27_ScratchOfBatch ==
    \A l \in DOMAIN lanes :
        ScratchReader(l) =>
            IF args.routine = "ger_lanes"
            THEN GerScratchOfBatch(l, GerLBatches[lanes[l].k])
            ELSE TbmvScratchOfBatch(l, TbmvLBatches[lanes[l].k])

\* the same for the kernel of one routine
C27_GerScratch == args.routine = "ger_lanes" => C27_ScratchOfBatch

C27_TbmvScratch == args.routine = "tbmv_lanes" => C27_ScratchOfBatch

\* and for the blocks that handle one batch only
C27_OneBatch ==
    (IF args.routine = "ger_lanes" THEN Len(GerLBatches) ELSE Len(TbmvLBatches)) <= 1
        => C27_ScratchOfBatch

----------------------------------------------------------------------------
(* A tbmv call with one block of its kernel run lane by lane *)

\* the host calls the launcher
TbmvRunCall ==
    /\ pc = "call"
    /\ LET r == rocblas_internal_tbmv_launcher(args)
       IN  /\ status' = r.status
           /\ stream' = stream \o r.ops
    /\ pc' = "ret"
    /\ UNCHANGED <<args, mem, loads, done, lanes, shared>>

\* the stream runs the copy of x
TbmvRunCopy ==
    /\ stream # <<>>
    /\ Head(stream).op = "copy"
    /\ mem' = ApplyWrites(mem, tbmv_copy(Head(stream), mem))
    /\ done' = Append(done, Head(stream))
    /\ stream' = Tail(stream)
    /\ UNCHANGED <<args, loads, status, pc, lanes, shared>>

\* the stream runs the kernel: a lane of the block takes a step
TbmvRunLane(l) ==
    /\ stream # <<>>
    /\ Head(stream).op = "kernel"
    /\ TbmvLaneStage(l) \/ TbmvLaneReduce(l)

\* the kernel is over when every lane has left it
TbmvRunEnd ==
    /\ stream # <<>>
    /\ Head(stream).op = "kernel"
    /\ LanesDone
    /\ done' = Append(done, Head(stream))
    /\ stream' = Tail(stream)
    /\ UNCHANGED <<args, mem, loads, status, pc, lanes, shared>>

\* a tbmv call and the block of its kernel that is run
TbmvRunInit ==
    /\ \E n \in 1..TbmvMaxN, k \in 0..SymvMaxK, bc \in 1..(c_YZ_grid_launch_limit + 1),
          tr \in {"N", "T", "C"}, uplo \in {"upper", "lower"}, diag \in {"unit", "non_unit"} :
         \E inc \in (IF bc > 1 THEN {1} ELSE {1, -1, 2}),
            g16 \in (IF bc > c_YZ_grid_launch_limit THEN BOOLEAN ELSE {FALSE}) :
           LET a == [routine |-> "tbmv_run", n |-> n, k |-> k, batch_count |-> bc, transA |-> tr,
                     uplo |-> uplo, diag |-> diag, incx |-> inc, grid16 |-> g16, lda |-> k + 1]
               K == rocblas_internal_tbmv_launcher(a).ops[2]
           IN  \E bx \in 0..(K.gridx - 1), bz \in 0..(K.gridz - 1) :
                 args = a @@ [bx |-> bx, bz |-> bz]
    /\ mem = [x |-> [c \in TbmvXCells |-> Old("x", c)], w |-> [c \in TbmvWCells |-> Old("w", c)]]
    /\ loads = {}
    /\ stream = <<>>
    /\ done = <<>>
    /\ status = "none"
    /\ pc = "call"
    /\ lanes = LanesInit(Lanes(TBMVX_DIM_X, TBMVX_DIM_Y))
    /\ shared = [sdata |-> [i \in 0..(TBMVX_DIM_X * TBMVX_DIM_Y - 1) |-> Undef]]

TbmvRunNext ==
    \/ TbmvRunCall
    \/ TbmvRunCopy
    \/ \E l \in DOMAIN lanes : TbmvRunLane(l)
    \/ TbmvRunEnd

SpecTbmvRun == TbmvRunInit /\ [][TbmvRunNext]_vars

\* the copy is on the stream before the kernel: no lane leaves the top of
\* the kernel before the copy has run
TbmvCopyFirst ==
    /\ (stream # <<>> /\ Head(stream).op = "kernel") => (done # <<>> /\ done[1].op = "copy")
    /\ (\E l \in DOMAIN lanes : lanes[l] # LanesInit(DOMAIN lanes)[l])
          => (done # <<>> /\ done[1].op = "copy")

\* once made, the copy holds the x of before the call: the kernel writes
\* only x
TbmvCopyKept ==
    (done # <<>>) =>
        \A b \in 0..(args.batch_count - 1), i \in 0..(args.n - 1) :
            mem.w[<<b, i>>] = Old("x", <<b, BlasAddr(i, args.incx, args.n)>>)

\* the elements of x the block has to store, when the kernel is over
TbmvRunResult ==
    Len(done) = 2 =>
        \A k \in 1..Len(TbmvLBatches), t \in 0..(TBMVX_DIM_X - 1) :
            args.bx * TBMVX_DIM_X + t < args.n =>
                LET c == <<TbmvLBatches[k], BlasAddr(args.bx * TBMVX_DIM_X + t, args.incx, args.n)>>
                IN  mem.x[c] = TbmvRef(args, c)

\* C29: tbmv copies x into the workspace before the kernel runs on the same
\* stream, the kernel reads the vector only from the copy and writes only x,
\* and so, under every interleaving of the lanes, every x[i] ends as the sum
\* over j of op(A)[i, j] * x_original[j]
C29_TbmvFromCopy == TbmvCopyFirst /\ TbmvCopyKept /\ TbmvRunResult

\* the same for the blocks that handle one batch only
C29_OneBatch == Len(TbmvLBatches) <= 1 => C29_TbmvFromCopy

\* the order and the copy alone
C29_CopyOnly == TbmvCopyFirst /\ TbmvCopyKept

----------------------------------------------------------------------------
(* rocblas_gemvn_double_buffered_kernel, block by block: the blocks of one
   block column, which add to the same rows of y *)

\* largest number of column tiles, and of block rows of the grid
GemvnBlocksMaxTiles == 3

\* a plain store in the place of the read-modify-write
atomicExch(cur, v) == v

\* atomicAdd(&y[..], v): the cell is read, added to and written in one step
atomicAdd(cur, v) == cur (+) v

\* the kernel launch of the call
GemvnBK == gemv_launch(args)[2]

\* the batches of the blocks
GemvnBBatches == BatchLoop(args.grid16, args.bz, args.batch_count)

\* top of the batch loop up to the atomicAdd: block by leaves the loop, or
\* skips a batch whose alpha is zero, or returns from the calculation with no
\* tile to add up, or adds up its tiles; what its lanes ty = 0 are about to
\* add to y is kept in lanes[by].res and recorded in shared
GemvnBlockCompute(by) ==
    /\ lanes[by].ph = "top"
    /\ IF lanes[by].k > Len(GemvnBBatches)
       THEN /\ lanes' = [lanes EXCEPT ![by].ph = "done"]
            /\ UNCHANGED <<shared, loads>>
       ELSE LET b == GemvnBBatches[lanes[by].k]
                K == GemvnBK
                R == IF K.alpha[b] = 0 THEN {}
                     ELSE rocblas_gemvn_double_buffered_kernel_calc(K, b, args.bx, by, args.bz)
            IN  /\ lanes' = IF R = {} THEN [lanes EXCEPT ![by].k = @ + 1]
                            ELSE [lanes EXCEPT ![by].ph = "add", ![by].res = R]
                /\ shared' = shared \cup R
                /\ loads' = loads \cup UNION { w.loads \ {Elem("y", b, w.loc[2][2])} : w \in R }
    /\ UNCHANGED <<args, mem, stream, done, status, pc>>

\* one lane ty = 0 of block by does its atomicAdd; the block goes on to its
\* next batch when all its lanes have
GemvnBlockAdd(by) ==
    /\ lanes[by].ph = "add"
    /\ \E w \in lanes[by].res :
         /\ mem' = [mem EXCEPT !.y[w.loc[2]] = atomicAdd(@, w.val)]
         /\ loads' = loads \cup {Elem("y", w.loc[2][1], w.loc[2][2])}
         /\ lanes' = IF lanes[by].res = {w}
                     THEN [lanes EXCEPT ![by].ph = "top", ![by].k = @ + 1, ![by].res = {}]
                     ELSE [lanes EXCEPT ![by].res = @ \ {w}]
    /\ UNCHANGED <<args, shared, stream, done, status, pc>>

\* the blocks (bx, 0..gridDim.y - 1, bz) of a double-buffered gemvn launch, y
\* holding the values it has before the kernel
GemvnBlocksInit ==
    /\ \E t \in 1..GemvnBlocksMaxTiles, gy \in 1..GemvnBlocksMaxTiles,
          bc \in {1, c_YZ_grid_launch_limit + 1}, g16 \in BOOLEAN :
         \E al \in [0..(bc - 1) -> {0, 2}] :
           LET a == [routine |-> "gemv", path |-> "gemvn_double_buffered", trans |-> "N",
                     T |-> "double", arch |-> 910, m |-> 2 * gemv_db_DIM_X,
                     n |-> t * gemv_db_DIM_X, gridy |-> gy, batch_count |-> bc,
                     pointer_mode |-> "device", incx |-> 1, incy |-> 1, alpha |-> al,
                     beta |-> [b \in 0..(bc - 1) |-> 1], grid16 |-> g16,
                     lda |-> 2 * gemv_db_DIM_X + 1]
               K == gemv_launch(a)[2]
           IN  /\ bc > c_YZ_grid_launch_limit \/ ~g16
               /\ \E bx \in 0..(K.gridx - 1), bz \in 0..(K.gridz - 1) :
                     args = [a EXCEPT !.routine = "gemvn_blocks"] @@ [bx |-> bx, bz |-> bz]
               /\ lanes = [by \in 0..(gy - 1) |-> [k |-> 1, ph |-> "top", res |-> {}]]
    /\ mem = [y |-> [c \in GemvYCells |-> Old("y", c)], w |-> [i \in GemvWCells |-> Old("w", i)]]
    /\ loads = {}
    /\ stream = <<>>
    /\ done = <<>>
    /\ status = "none"
    /\ pc = "kernel"
    /\ shared = {}

GemvnBlocksNext == \E by \in DOMAIN lanes : GemvnBlockCompute(by) \/ GemvnBlockAdd(by)

SpecGemvnBlocks == GemvnBlocksInit /\ [][GemvnBlocksNext]_vars

\* the partial results of the blocks for cell c of y, each times alpha
GemvnContributions(c) == BSum([w \in {r \in shared : r.loc = <<"y", c>>} |-> w.val])

\* alpha times row i of A times x, for batch b
GemvnRowSum(b, i) ==
    Scale(args.alpha[b],
          BSum([j \in 0..(args.n - 1) |-> ProdE(Elem("x", b, j), Elem("A", b, i + j * args.lda), FALSE)]))

----------------------------------------------------------------------------
(* The launchers with vector operands together: dot, ger, syr2, hbmv, hpmv,
   sbmv, tbmv *)

VectorInit == GerInit \/ Syr2Init \/ SymvInit \/ TbmvInit \/ DotInit

VectorNext == GerNext \/ Syr2Next \/ SymvNext \/ TbmvNext \/ DotNext

SpecVectors == VectorInit /\ [][VectorNext]_vars

\* the number of elements of x and of y of the call: n, except that ger's x
\* has m
VecLenX == IF args.routine = "ger" THEN args.m ELSE args.n

VecLenY == args.n

Abs(i) == IF i < 0 THEN 0 - i ELSE i

\* shift and inc address the len elements of a vector as BLAS lays them out
\* from the base offset (0 here): shift is the offset unless inc is negative,
\* index 0 is then at the highest address, and every shift + i * inc lies in
\* [offset, offset + |inc| * (len - 1)]
ShiftedRight(shift, inc, len) ==
    /\ inc >= 0 => shift = 0
    /\ inc < 0 => shift = (0 - inc) * (len - 1)
    /\ \A i \in 0..(len - 1) :
          /\ shift + i * inc >= 0
          /\ shift + i * inc <= Abs(inc) * (len - 1)
          /\ shift + i * inc = BlasAddr(i, inc, len)
          /\ inc < 0 => shift + i * inc <= shift

\* the kernel launches the call has enqueued that take a shifted x
VecLaunches ==
    { q \in 1..Len(DotOps) : DotOps[q].op = "kernel" /\ "shiftx" \in DOMAIN DotOps[q] }

\* the addresses of the elements of x: in a dot call whose y is the array x,
\* those reached through y's increment as well
VecRangeX ==
    0..(Abs(args.incx) * (VecLenX - 1))
        \cup (IF args.routine = "dot" /\ args.y_is_x
              THEN 0..(Abs(args.incy) * (VecLenY - 1)) ELSE {})

\* C14: every launcher passes its kernel, for a vector of len elements with
\* negative inc, the base offset shifted by -inc * (len - 1) and for inc >= 0
\* the offset itself, so that every access shift + i * inc, i < len, lies in
\* [offset, offset + |inc| * (len - 1)]; len is n, and m for ger's x; the
\* elements of x and y the kernels load lie in that range
C14_NegativeIncShift ==
    /\ \A q \in VecLaunches :
          LET K == DotOps[q]
          IN  /\ K.incx = args.incx
              /\ ShiftedRight(K.shiftx, args.incx, VecLenX)
              /\ "shifty" \in DOMAIN K
                    => K.incy = args.incy /\ ShiftedRight(K.shifty, args.incy, VecLenY)
    /\ \A e \in loads :
          /\ e[1] = "x" => e[3] \in VecRangeX
          /\ e[1] = "y" => e[3] \in 0..(Abs(args.incy) * (VecLenY - 1))

\* a ger call with m # n and a negative incx has run its kernel
C14_Witness ==
    /\ args.routine = "ger"
    /\ args.incx < 0
    /\ args.m > args.n
    /\ args.n > 1
    /\ Len(done) = 1
    /\ \E e \in loads : e[1] = "x" /\ e[3] = 0

----------------------------------------------------------------------------
(* hbmv, hpmv, sbmv: properties *)

SpecSymv == SymvInit /\ [][SymvNext]_vars

\* where the call stores the diagonal element (j, j) of A: row k (upper) or
\* row 0 (lower) of column j of the band, or its place in the packed triangle
SymvDiagAddr(a, j) ==
    IF a.routine = "hpmv"
    THEN (IF a.uplo = "upper" THEN (j * (j + 1)) \div 2 + j
          ELSE (j * (2 * a.n - j + 1)) \div 2)
    ELSE (IF a.uplo = "upper" THEN a.k ELSE 0) + j * a.lda

\* the products with a diagonal element of A in the value v
SymvDiagTerms(a, v) ==
    { t \in DOMAIN v : /\ t[1] = "mul"
                       /\ t[3][1] = "A"
                       /\ \E j \in 0..(a.n - 1) : t[3][3] = SymvDiagAddr(a, j) }

\* C19: whatever hbmv and hpmv store in y depends on a diagonal element of A
\* through its real part only, so that two inputs that differ in the stored
\* imaginary parts of the diagonal give the same y
C19_DiagonalReal ==
    args.routine \in {"hbmv", "hpmv"} =>
        \A c \in DOMAIN mem.y :
            \A t \in SymvDiagTerms(args, mem.y[c]) : t[4] = "real"

\* hbmv with upper storage and off-diagonals in the band: the kernel has run
\* and an element of y holds a product with a diagonal element of A
C19_Witness ==
    /\ args.routine = "hbmv"
    /\ args.uplo = "upper" /\ args.k > 0 /\ args.n > 1
    /\ done # <<>>
    /\ \E c \in DOMAIN mem.y : SymvDiagTerms(args, mem.y[c]) # {}

\* the same for hpmv
C19_WitnessPacked ==
    /\ args.routine = "hpmv"
    /\ args.n > 1
    /\ done # <<>>
    /\ \E c \in DOMAIN mem.y : SymvDiagTerms(args, mem.y[c]) # {}

\* the place of the stored position (row, col) in the packed triangle of a
\* matrix of order n: row <= col for upper, row >= col for lower storage
PackedIndex(uplo, n, row, col) ==
    IF uplo = "upper" THEN (col * (col + 1)) \div 2 + row
    ELSE (col * (2 * n - col + 1)) \div 2 + (row - col)

\* the stored positions of a packed matrix of order n
PackedStored(uplo, n) ==
    { p \in (0..(n - 1)) \X (0..(n - 1)) :
        IF uplo = "upper" THEN p[1] <= p[2] ELSE p[1] >= p[2] }

\* the stored position logical position (i, j) is read from, and how
PackedRead(uplo, i, j) ==
    LET stored == IF uplo = "upper" THEN i <= j ELSE i >= j
    IN  [row |-> IF stored THEN i ELSE j,
         col |-> IF stored THEN j ELSE i,
         how |-> IF i = j THEN "real" ELSE IF stored THEN "id" ELSE "conj"]

\* the hpmv kernel has run for batch b of a call with alpha # 0
HpmvRan(b) ==
    /\ args.routine = "hpmv"
    /\ done # <<>>
    /\ b < args.batch_count
    /\ args.alpha[b] # 0

\* the products with an element of A in element i of y of batch b
HpmvProducts(b, i) ==
    LET v == mem.y[<<b, done[1].shifty + i * done[1].incy>>]
    IN  { t \in DOMAIN v : t[1] = "mul" }

\* C20: the hpmv kernel reads logical position (i, j) of A at the packed
\* index col*(col+1)/2 + row (upper) or col*(2n-col+1)/2 + (row-col) (lower)
\* of its stored position, the transposed position (conjugated) when (i, j)
\* lies in the opposite triangle; the index lies in [0, n(n+1)/2) and distinct
\* stored positions have distinct indices
C20_PackedIndex ==
    \A b \in 0..c_YZ_grid_launch_limit :
        HpmvRan(b) =>
            LET n == args.n
                u == args.uplo
            IN  /\ \A i \in 0..(n - 1) :
                      HpmvProducts(b, i) =
                          { LET r == PackedRead(u, i, j)
                            IN  <<"mul", Elem("x", b, done[1].shiftx + j * done[1].incx),
                                  Elem("A", b, PackedIndex(u, n, r.row, r.col)), r.how>> :
                            j \in 0..(n - 1) }
                /\ \A i \in 0..(n - 1) : \A t \in HpmvProducts(b, i) :
                      t[3][3] >= 0 /\ t[3][3] < (n * (n + 1)) \div 2
                /\ \A p, q \in PackedStored(u, n) :
                      p # q => PackedIndex(u, n, p[1], p[2]) # PackedIndex(u, n, q[1], q[2])
                /\ Cardinality(UNION { { t[3][3] : t \in HpmvProducts(b, i) } :
                                       i \in 0..(n - 1) }) = (n * (n + 1)) \div 2

\* the kernel has run for a lower-packed matrix of the largest order
C20_Witness ==
    /\ HpmvRan(0)
    /\ args.uplo = "lower"
    /\ args.n = SymvMaxN
    /\ HpmvProducts(0, args.n - 1) # {}

----------------------------------------------------------------------------
(* gemm: properties *)

SpecGemm == GemmInit /\ [][GemmNext]_vars

\* what the call has put on its stream so far
GemmOps == done \o stream

\* the launches of the source path
GemmSourceLaunches ==
    { q \in DOMAIN GemmOps :
        GemmOps[q].name \in {"rocblas_gemm_scale_launcher_64",
                             "rocblas_gemm_source_solution_64"} }

\* the calls of the backend
GemmBackendCalls ==
    { q \in DOMAIN GemmOps : GemmOps[q].op = "call" /\ GemmOps[q].name = "rocblas_call_tensile" }

\* C23: in a build with the backend the source kernels run only when the
\* backend returned not_implemented; any other status of the backend is the
\* status of the call, nothing of the source path is launched and the backend
\* is called once
C23_BackendFallback ==
    (args.routine = "gemm" /\ args.tensile # "not_built") =>
        /\ GemmSourceLaunches # {} => args.tensile = "not_implemented"
        /\ Cardinality(GemmBackendCalls) <= 1
        /\ (GemmBackendCalls # {} /\ args.tensile # "not_implemented")
              => /\ status = args.tensile
                 /\ pc = "ret"
                 /\ GemmSourceLaunches = {}

\* the backend has returned an error to a call that the source path could
\* have served
C23_Witness ==
    /\ args.routine = "gemm"
    /\ args.tensile = "internal_error"
    /\ GemmBackendCalls # {}
    /\ pc = "ret"
    /\ args.k > 0 /\ args.alpha # 0

\* the source path has run: every launch of the call has run and at least one
GemmSourceRan ==
    /\ args.routine = "gemm"
    /\ pc = "ret" /\ stream = <<>>
    /\ GemmSourceLaunches # {}

----------------------------------------------------------------------------
(* The banded routines together: hbmv, sbmv, tbmv *)

BandedInit == SymvInit \/ TbmvInit

BandedNext == SymvNext \/ TbmvNext

SpecBanded == BandedInit /\ [][BandedNext]_vars

\* the row of the band that holds the stored element (r, c)
BandRow(uplo, k, r, c) == IF uplo = "upper" THEN r + (k - c) ELSE r - c

\* (r, c) lies in the stored triangle and within k diagonals of the main one
InBand(uplo, k, r, c) ==
    IF uplo = "upper" THEN r <= c /\ c - r <= k ELSE r >= c /\ r - c <= k

\* the addresses of the elements of A a value is a product with
BandedAAddrs(v) == { t[3][3] : t \in { u \in DOMAIN v : u[1] = "mul" } }

\* the stored positions element i of the result takes its elements of A
\* from: row i of the symmetric or Hermitian matrix, row i of op(A) in tbmv
\* (the diagonal left out when it is taken as 1)
BandedPositions(a, i) ==
    LET J == 0..(a.n - 1)
    IN  IF a.routine = "tbmv"
        THEN { p \in (IF a.transA = "N" THEN { <<i, j>> : j \in J } ELSE { <<j, i>> : j \in J }) :
                 InBand(a.uplo, a.k, p[1], p[2]) /\ ~(a.diag = "unit" /\ p[1] = p[2]) }
        ELSE { p \in { <<i, j>> : j \in J } \cup { <<j, i>> : j \in J } :
                 InBand(a.uplo, a.k, p[1], p[2]) }

\* the kernel of a banded routine has run for batch b, and not with alpha == 0
BandedRan(b) ==
    /\ args.routine \in {"hbmv", "sbmv", "tbmv"}
    /\ b < args.batch_count
    /\ stream = <<>>
    /\ done # <<>>
    /\ args.routine # "tbmv" => args.alpha[b] # 0

\* element i of the result of batch b
BandedResult(b, i) ==
    LET K == done[Len(done)]
    IN  IF args.routine = "tbmv" THEN mem.x[<<b, K.shiftx + i * K.incx>>]
        ELSE mem.y[<<b, K.shifty + i * K.incy>>]

\* C21: in hbmv, sbmv and tbmv the element of A at logical position (ind,
\* col) is taken from band row ind + (k - col) (upper) or ind - col (lower) of
\* its column; an element of A is loaded only with its band row in [0, k] and
\* its column in [0, n), and a position outside the band adds nothing and
\* loads nothing from A
C21_BandRow ==
    \A b \in 0..c_YZ_grid_launch_limit :
        BandedRan(b) =>
            /\ \A i \in 0..(args.n - 1) :
                  BandedAAddrs(BandedResult(b, i)) =
                      { BandRow(args.uplo, args.k, p[1], p[2]) + p[2] * args.lda :
                        p \in BandedPositions(args, i) }
            /\ \A e \in loads :
                  e[1] = "A" =>
                      \E row \in 0..args.k, col \in 0..(args.n - 1) :
                          e[3] = row + col * args.lda

\* tbmv, not transposed, upper, with positions of the triangle outside the
\* band: the kernel has run
C21_Witness ==
    /\ BandedRan(0)
    /\ args.routine = "tbmv"
    /\ args.transA = "N" /\ args.uplo = "upper"
    /\ args.k > 0 /\ args.k < args.n - 1
    /\ BandedAAddrs(BandedResult(0, 0)) # {}

----------------------------------------------------------------------------
(* Successive calls on one handle *)

\* the calls made on the handle
MaxCalls == 3

\* the dot calls of this specification: the quick return and the four
\* branches of the launcher, with and without aliasing, in both pointer modes
RepeatDotArgs ==
    { [routine |-> "dot", n |-> c[1], batch_count |-> c[2], pointer_mode |-> pm,
       T |-> "float", incx |-> 1, incy |-> 1, y_is_x |-> yx, size_query |-> FALSE,
       CONJ |-> FALSE, hip |-> "ok", arch |-> c[3], warp |-> WARP_64, grid16 |-> FALSE] :
      c \in {<<0, 1, 908>>, <<dot_small_n - 1, 1, 908>>,
             <<dot_small_n - 1, dot_high_batch, 908>>,
             <<MaxN, 1, 908>>, <<MaxN, 1, 942>>},
      pm \in {"host", "device"}, yx \in BOOLEAN }

\* the ger calls of this specification: one per kernel of the launcher
RepeatGerArgs ==
    { [routine |-> "ger", m |-> c[1], n |-> c[1], batch_count |-> 1,
       pointer_mode |-> "host", T |-> c[2], incx |-> 1, incy |-> 1,
       alpha |-> [b \in {0} |-> 2], CONJ |-> FALSE, arch |-> c[3], grid16 |-> FALSE,
       lda |-> c[1] + 1] :
      c \in {<<2, "double", 900>>, <<4, "double", 910>>, <<4, "float", 900>>,
             <<4, "float", 942>>} }

RepeatArgs == RepeatDotArgs \cup RepeatGerArgs

\* the first call on the handle.  In this specification shared is the
\* history of the handle: the arguments of every call that has returned and
\* what its launcher put on the stream.
RepeatInit ==
    /\ args \in RepeatArgs
    /\ mem = [results |-> DotMem0.results, workspace |-> DotMem0.workspace, A |-> GerMem0.A]
    /\ loads = {}
    /\ stream = <<>>
    /\ done = <<>>
    /\ status = "none"
    /\ pc = "call"
    /\ lanes = <<>>
    /\ shared = <<>>

\* the call has returned and its operations have run: the host makes the
\* next call on the same handle, memory left as the earlier calls wrote it
RepeatAgain ==
    /\ pc = "ret"
    /\ stream = <<>>
    /\ Len(shared) + 1 < MaxCalls
    /\ shared' = Append(shared, [args |-> args, ops |-> done])
    /\ args' \in RepeatArgs
    /\ done' = <<>>
    /\ loads' = {}
    /\ status' = "none"
    /\ pc' = "call"
    /\ UNCHANGED <<mem, stream, lanes>>

RepeatNext == DotNext \/ GerNext \/ RepeatAgain

SpecRepeat == RepeatInit /\ [][RepeatNext]_vars

\* the call has returned and the stream has run what it launched
RepeatReturned == pc = "ret" /\ stream = <<>>

----------------------------------------------------------------------------
(* The API wrappers: hemv, trsv, trtri_strided_batched, rotm_strided_batched,
   syr, tbsv_batched, trsm.  In this specification done is the sequence of the
   stages the call has run, and args holds the outcome every callee would
   give. *)

\* the wrappers that allocate scratch with handle->device_malloc
ImplAllocating == {"hemv", "trsv", "trtri"}

\* the wrappers that begin with RETURN_ZERO_DEVICE_MEMORY_SIZE_IF_QUERIED
ImplZeroSize == {"rotm", "syr", "tbsv"}

ImplRoutines == ImplAllocating \cup ImplZeroSize \cup {"trsm"}

\* what a stage gives: the stage it ran ("" for none), the status the call
\* has so far and where the wrapper goes next
ImplR(stage, st, next) == [stage |-> stage, status |-> st, pc |-> next]

\* if(!handle) return rocblas_status_invalid_handle; the answer to a size
\* query and the logging
impl_enter(a) ==
    IF ~a.handle THEN ImplR("", "invalid_handle", "ret")
    ELSE IF a.routine \in ImplZeroSize /\ a.size_query
    THEN ImplR("", "size_unchanged", "ret")
    ELSE IF a.routine = "trtri" /\ a.size_query
    THEN ImplR("", IF a.zero_sized THEN "size_unchanged" ELSE "size_set", "ret")
    ELSE ImplR("", "none", "arg_check")

\* arg_status = ..._arg_check(...); if(arg_status != rocblas_status_continue)
\* return arg_status;  (rotm validates its arguments in line)
impl_arg_check(a) ==
    IF a.arg_status # "continue" THEN ImplR("arg_check", a.arg_status, "ret")
    ELSE IF a.routine = "hemv" /\ a.size_query THEN ImplR("arg_check", "size_set", "ret")
    ELSE IF a.routine \in ImplAllocating THEN ImplR("arg_check", "none", "malloc")
    ELSE IF a.routine = "trsm" /\ a.alpha0 THEN ImplR("arg_check", "none", "set_block_unit")
    ELSE ImplR("arg_check", "none", "check_in")

\* a wrapper that goes on after a failed allocation
impl_malloc_ignored(a) == ImplR("device_malloc", "none", "check_in")

\* auto w_mem = handle->device_malloc(dev_bytes);
\* if(!w_mem) return rocblas_status_memory_error;
impl_malloc(a) ==
    IF ~a.malloc_ok THEN ImplR("device_malloc", "memory_error", "ret")
    ELSE ImplR("device_malloc", "none", "check_in")

\* the stage after the input check
impl_after_check_in(a) == IF a.routine = "trsm" THEN "template_mem" ELSE "core"

\* a wrapper that calls the core whatever the input check found
impl_check_in_ignored(a) ==
    ImplR(IF a.check_numerics THEN "check_numerics_in" ELSE "", "none", impl_after_check_in(a))

\* if(check_numerics) { status = ..._check_numerics(..., is_input = true);
\* if(status != rocblas_status_success) return status; }
impl_check_in(a) ==
    IF ~a.check_numerics THEN ImplR("", "none", impl_after_check_in(a))
    ELSE IF a.in_status # "success" THEN ImplR("check_numerics_in", a.in_status, "ret")
    ELSE ImplR("check_numerics_in", "none", impl_after_check_in(a))

\* trsm: perf_status = rocblas_internal_trsm_template_mem(...);
\* if(perf_status != success && perf_status != perf_degraded) return perf_status;
impl_template_mem(a) ==
    IF a.perf_status \notin {"success", "perf_degraded"}
    THEN ImplR("template_mem", a.perf_status, "ret")
    ELSE ImplR("template_mem", "none", "core")

\* status = ..._template(...) or ..._launcher(...);
\* if(status != rocblas_status_success) return status;
\* (trsm: status = status != success ? status : perf_status, first)
impl_core(a) ==
    LET st == IF a.routine = "trsm" /\ a.core_status = "success" THEN a.perf_status
              ELSE a.core_status
    IN  IF st # "success" THEN ImplR("core", st, "ret")
        ELSE ImplR("core", "success", "check_out")

\* if(check_numerics) { status = ..._check_numerics(..., is_input = false);
\* if(status != rocblas_status_success) return status; } return status;
impl_check_out(a) ==
    IF ~a.check_numerics THEN ImplR("", "success", "ret")
    ELSE ImplR("check_numerics_out", a.out_status, "ret")

\* trsm in host pointer mode with alpha == 0: return set_block_unit(...)
impl_set_block_unit(a) == ImplR("set_block_unit", a.core_status, "ret")

\* the wrapper runs the stage r
ImplRun(r) ==
    /\ done' = IF r.stage = "" THEN done ELSE Append(done, r.stage)
    /\ status' = r.status
    /\ pc' = r.pc
    /\ UNCHANGED <<args, mem, loads, stream, lanes, shared>>

ImplEnter == pc = "call" /\ ImplRun(impl_enter(args))

ImplArgCheck == pc = "arg_check" /\ ImplRun(impl_arg_check(args))

ImplMalloc == pc = "malloc" /\ ImplRun(impl_malloc(args))

ImplCheckIn == pc = "check_in" /\ ImplRun(impl_check_in(args))

ImplTemplateMem == pc = "template_mem" /\ ImplRun(impl_template_mem(args))

ImplCore == pc = "core" /\ ImplRun(impl_core(args))

ImplCheckOut == pc = "check_out" /\ ImplRun(impl_check_out(args))

ImplSetBlockUnit == pc = "set_block_unit" /\ ImplRun(impl_set_block_unit(args))

\* a call of a wrapper: the handle, the query, the debugging mode, and what
\* each callee is going to return.  trsv and trsm answer a size query inside
\* callees, so their calls here are not queries.
ImplInit ==
    /\ \E routine \in ImplRoutines, handle \in BOOLEAN, cn \in BOOLEAN, mo \in BOOLEAN,
          as \in {"continue", "success", "invalid_size", "invalid_pointer"},
          is \in {"success", "check_numerics_fail"},
          cs \in {"success", "internal_error"},
          os \in {"success", "check_numerics_fail"} :
         \E sq \in (IF routine \in {"trsv", "trsm"} THEN {FALSE} ELSE BOOLEAN),
            zs \in (IF routine = "trtri" THEN BOOLEAN ELSE {FALSE}),
            a0 \in (IF routine = "trsm" THEN BOOLEAN ELSE {FALSE}),
            ps \in (IF routine = "trsm" THEN {"success", "perf_degraded", "memory_error"}
                    ELSE {"success"}) :
           args = [routine |-> routine, handle |-> handle, size_query |-> sq,
                   zero_sized |-> zs, check_numerics |-> cn, arg_status |-> as,
                   malloc_ok |-> mo, in_status |-> is, core_status |-> cs,
                   out_status |-> os, alpha0 |-> a0, perf_status |-> ps]
    /\ mem = <<>>
    /\ loads = {}
    /\ stream = <<>>
    /\ done = <<>>
    /\ status = "none"
    /\ pc = "call"
    /\ lanes = <<>>
    /\ shared = <<>>

ImplNext ==
    \/ ImplEnter
    \/ ImplArgCheck
    \/ ImplMalloc
    \/ ImplCheckIn
    \/ ImplTemplateMem
    \/ ImplCore
    \/ ImplCheckOut
    \/ ImplSetBlockUnit

SpecImpl == ImplInit /\ [][ImplNext]_vars

\* the stages of the call that are stage s
ImplRuns(s) == { q \in DOMAIN done : done[q] = s }

\* C22: when device_malloc fails the call returns the memory-error status at
\* once: the allocation is the last stage the call runs (no numerics check, no
\* core call after it) and it is made once
C22_MallocFailure ==
    /\ Cardinality(ImplRuns("device_malloc")) <= 1
    /\ \A q \in ImplRuns("device_malloc") :
          ~args.malloc_ok => /\ q = Len(done)
                             /\ pc = "ret"
                             /\ status = "memory_error"

\* a call of an allocating wrapper whose allocation has failed, with the
\* numerics checks switched on
C22_Witness ==
    /\ args.routine \in ImplAllocating
    /\ ~args.malloc_ok
    /\ args.check_numerics
    /\ ImplRuns("device_malloc") # {}
    /\ pc = "ret"

\* the place of a stage in the order of the wrapper
ImplRank(s) ==
    CASE s = "arg_check" -> 1
      [] s = "device_malloc" -> 2
      [] s = "check_numerics_in" -> 3
      [] s = "template_mem" -> 4
      [] s \in {"core", "set_block_unit"} -> 5
      [] s = "check_numerics_out" -> 6

\* what a stage of the call returned
ImplOutcome(s) ==
    CASE s = "arg_check" -> args.arg_status
      [] s = "device_malloc" -> IF args.malloc_ok THEN "success" ELSE "memory_error"
      [] s = "check_numerics_in" -> args.in_status
      [] s = "template_mem" -> args.perf_status
      [] s \in {"core", "set_block_unit"} -> args.core_status
      [] s = "check_numerics_out" -> args.out_status

\* C25: a wrapper runs argument validation, the input check, the core call
\* and the output check in this order; a stage that returns anything but
\* continue or success is the last stage of the call and its status is the
\* status of the call, so the core never runs after a failed validation or
\* input check, nor the output check after a failed core call
C25_StageOrder ==
    /\ \A p, q \in DOMAIN done : p < q => ImplRank(done[p]) < ImplRank(done[q])
    /\ \A q \in DOMAIN done :
          ImplOutcome(done[q]) \notin {"continue", "success", "perf_degraded"}
              => q = Len(done) /\ pc = "ret" /\ status = ImplOutcome(done[q])
    /\ ImplRuns("core") # {}
          => /\ ImplRuns("arg_check") # {} /\ args.arg_status = "continue"
             /\ args.check_numerics
                   => ImplRuns("check_numerics_in") # {} /\ args.in_status = "success"
    /\ ImplRuns("check_numerics_out") # {}
          => ImplRuns("core") # {} /\ args.core_status = "success"
    /\ (pc = "ret" /\ status = "success" /\ args.check_numerics
           /\ args.arg_status = "continue" /\ ImplRuns("core") # {})
          => ImplRuns("check_numerics_out") # {}

\* a call of rotm, syr or tbsv whose input check has failed
C25_Witness ==
    /\ args.routine \in ImplZeroSize
    /\ pc = "ret"
    /\ done = <<"arg_check", "check_numerics_in">>
    /\ status = "check_numerics_fail"

====
